---- MODULE Spec2Model ----
(***************************************************************************)
(* The hardware flow-offload engine of lib/dpif-netdev-offload.c: the      *)
(* request queue fed by dataplane (PMD) threads, the single offload        *)
(* worker, the per-tunnel-port composition tables (ingress / tnl-pop),     *)
(* the NIC driver's set of programmed entries, and the pause / resume /    *)
(* join / restart lifecycle.                                               *)
(*                                                                         *)
(* Granularity.  Every section of code that runs under the queue mutex is  *)
(* one action.  The worker's handling of one item is cut at the places     *)
(* where it publishes a flow status word outside the mutex and then goes   *)
(* on working, because producers read these words; the driver, the         *)
(* composition tables and the entries' fields are touched by the worker    *)
(* only, so the code between two published stores is one step.  SpecAux    *)
(* adds the thread of dpif_netdev_offload_used, which reads the tables     *)
(* under aux->rwlock: there each of its critical sections is a step and    *)
(* the write-locked section of the ingress ADD is two, the put loop and    *)
(* the rollback loop.  Elsewhere the lock mode in which the worker writes  *)
(* Aux state is logged in mut, as its driver calls are in drv.             *)
(*                                                                         *)
(* The driver is an external collaborator: flow_put may be refused at      *)
(* will (the refusals are chosen with \E), a refused put leaves the        *)
(* programmed set as it was, flow_del removes the key and fails when the   *)
(* key is not programmed.                                                  *)
(***************************************************************************)
EXTENDS Integers, Sequences, FiniteSets, TLC

\* ---------------------------------------------------------------- bounds
\* Number of producer calls (queue_put / queue_del / flow removal) in one
\* behaviour of Spec, of SpecLife and of SpecSeq.
MaxReq == 3
MaxLifeReq == 3
MaxSeqReq == 4
\* Number of producer calls in one behaviour of SpecComp.
MaxCompReq == 4
\* Number of producer calls in one behaviour of SpecPause.
MaxPauseReq == 2
\* Number of producer calls in one behaviour of SpecUfid, and the largest
\* ufid its flows are given.
MaxUfidReq == 4
MaxUfid == 4
\* Number of join / restart rounds of the lifecycle thread in one behaviour.
MaxJoin == 1

\* ------------------------------------------------------------- the world
\* Flow handles of the classifier.  I* carry a TUNNEL_POP action, T* match
\* on the tunnel vport, N1 is an ordinary flow.
Flows == {"I1", "I2", "T1", "T2", "N1"}
\* Dataplane (PMD) threads calling the producer API.
Producers == {"pmd1", "pmd2"}
\* Control threads calling pause / resume / join / restart.
Callers == {"ctl1", "ctl2"}

\* odp ports: p0 and p1 are NIC ports, vtp is the vxlan tunnel vport that
\* owns the composition Aux, tap0 has no netdev behind it.
PortVtp == "vtp"
NetdevPorts == {"p0", "p1", PortVtp}

\* flow->flow.in_port.odp_port
in_port(f) == IF f \in {"T1", "T2"} THEN PortVtp ELSE "p0"
\* flow_tnl_dst_is_set(&flow->flow.tunnel)
flow_tnl_dst_is_set(f) == f \in {"T1", "T2"}
\* an assignment of ufids with one bit per flow: no two composed ufids and
\* no composed and plain ufid coincide
BitUfids ==
    [f \in Flows |->
       CASE f = "I1" -> 1 [] f = "I2" -> 2 [] f = "T1" -> 4 [] f = "T2" -> 8
         [] OTHER -> 16]

\* Action lists (sequences of netlink attributes).
Attr(t, p) == [type |-> t, port |-> p]
ActPop == << Attr("TUNNEL_POP", PortVtp) >>
ActOut == << Attr("OUTPUT", "p1") >>
ActTap == << Attr("OUTPUT", "tap0") >>
ActLists == {ActPop, ActOut, ActTap}
\* the action list a flow is installed with
InitAct(f) == IF f \in {"I1", "I2"} THEN ActPop ELSE ActOut


VARIABLES
    list,           \* dp_flow_offload.list: FIFO of offload items
    process,        \* dp_flow_offload.process
    exit,           \* dp_flow_offload.exit
    req,            \* dp_flow_offload.req (the pause switch, "accepting")
    thread,         \* dp_flow_offload.thread: TRUE while a worker thread exists
    wpc,            \* the worker's position in dp_netdev_flow_offload_main
    offload,        \* the item the worker holds ("none" when it holds none)
    old_status,     \* dp_netdev_try_offload's local old_status
    wstatus,        \* dp_netdev_try_offload's local status, to be published
    status,         \* flow->status: [base, in_progress] per flow
    ref,            \* flow reference count
    dead,           \* flow->dead
    actions,        \* flow->actions (the live action list)
    ports,          \* odp ports netdev_ports_get resolves
    ufids,          \* flow->mega_ufid per flow
    ingress_flows,  \* aux->ingress_flows, keyed by ufid
    tnl_pop_flows,  \* aux->tnl_pop_flows, keyed by ufid
    hw,             \* entries programmed in the driver: <<netdev, ufid>>
    drv,            \* the driver calls the worker made in its last step
    mut,            \* the Aux writes of the worker's last step, with the lock held
    rwlock,         \* aux->rwlock: "wr" while the worker holds it for writing
    reader,         \* the thread in dpif_netdev_offload_used: position, locals
    ppc,            \* per producer: position in queue_netdev_flow_put
    parg,           \* per producer: the arguments of the call in progress
    cpc,            \* per caller: position in pause / wait_done / join
    cproc,          \* per caller: dp_netdev_wait_offload_done's local process
    pret,           \* per caller: what its last pause returned ("none" before any)
    nreq,           \* producer calls made so far
    njoin,          \* joins made so far
    prejoin,        \* number of items at the head of list queued before join
    drained,        \* flows of the items queued before join the drain dropped
    snap            \* per caller: the state its last pause call started in

qvars == << list, process, exit, req, thread >>
wvars == << wpc, offload, old_status, wstatus >>
fvars == << status, ref, dead, actions >>
tvars == << ingress_flows, tnl_pop_flows, hw >>
pvars == << ppc, parg >>
cvars == << cpc, cproc, pret >>
gvars == << nreq, njoin, prejoin, drained, snap >>
avars == << rwlock, reader >>
vars == << qvars, wvars, fvars, tvars, pvars, cvars, gvars, avars, ports, ufids,
          drv, mut >>

\* flow->mega_ufid
mega_ufid(f) == ufids[f]

\* ---------------------------------------------------------------- helpers
RECURSIVE Xor(_, _)
\* bitwise exclusive or of two naturals
Xor(a, b) ==
    IF a = 0 THEN b
    ELSE IF b = 0 THEN a
    ELSE (2 * Xor(a \div 2, b \div 2)) + (((a % 2) + (b % 2)) % 2)

\* hmap_insert / hmap_remove on a table kept as a function from ufid
hmap_insert(tab, k, e) ==
    [x \in DOMAIN tab \cup {k} |-> IF x = k THEN e ELSE tab[x]]
hmap_remove(tab, k) == [x \in DOMAIN tab \ {k} |-> tab[x]]
EmptyTab == [x \in {} |-> 0]

\* all enumerations of a finite set as a sequence (hash order is arbitrary)
Orders(S) ==
    {o \in [1 .. Cardinality(S) -> S] : \A x \in S : \E i \in DOMAIN o : o[i] = x}

\* status word helpers of dpif-netdev-private.h
flow_offload_status(st, f) == st[f].base
flow_offload_in_progress(st, f) == st[f].in_progress
offload_status_offloaded(s) == s \in {"MASK", "FULL"}
\* atomic_store_explicit(&flow->status, v): the whole word is overwritten
store_status(st, f, v) ==
    [st EXCEPT ![f] = [base |-> v, in_progress |-> FALSE]]

\* dp_netdev_flow_ref succeeds unless the count has dropped to zero
dp_netdev_flow_ref_ok(r, f) == r[f] > 0
dp_netdev_flow_ref(r, f) == IF r[f] > 0 THEN [r EXCEPT ![f] = @ + 1] ELSE r
dp_netdev_flow_unref(r, f) == [r EXCEPT ![f] = @ - 1]

\* netdev_ports_get(port, class) finds a netdev
netdev_ports_get(ps, p) == p \in ps

\* ------------------------------------------------------ action classifier
\* dp_netdev_action_get: the first attribute of the given type, as its index
\* (0 when there is none)
dp_netdev_action_get(act, type) ==
    IF \E i \in DOMAIN act : act[i].type = type
    THEN CHOOSE i \in DOMAIN act :
            /\ act[i].type = type
            /\ \A j \in DOMAIN act : act[j].type = type => i <= j
    ELSE 0

\* is_port_tap: no netdev behind the port
is_port_tap(ps, p) == ~netdev_ports_get(ps, p)

RECURSIVE check_action_walk(_, _, _, _, _)
\* the attribute loop of offload_check_action from index i on; flag is the
\* ACTION_OUTPUT bit, offl the local offloadable.  A CLONE attribute carries
\* one inner OUTPUT (check_clone_actions) and is well formed when it is the
\* last attribute.
check_action_walk(ps, act, i, flag, offl) ==
    IF i > Len(act)
    THEN IF Len(act) = 0 \/ ~flag THEN TRUE ELSE offl
    ELSE LET a == act[i] IN
      CASE a.type = "OUTPUT" ->
             IF is_port_tap(ps, a.port) THEN FALSE
             ELSE check_action_walk(ps, act, i + 1, TRUE, TRUE)
        [] a.type = "CLONE" ->
             IF i = Len(act)
             THEN IF is_port_tap(ps, a.port)
                  THEN check_action_walk(ps, act, i + 1, flag, FALSE)
                  ELSE check_action_walk(ps, act, i + 1, TRUE, TRUE)
             ELSE FALSE
        [] a.type = "TUNNEL_POP" ->
             check_action_walk(ps, act, i + 1, TRUE, TRUE)
        [] a.type = "PUSH_VLAN" ->
             check_action_walk(ps, act, i + 1, flag, TRUE)
        [] OTHER -> check_action_walk(ps, act, i + 1, flag, offl)

offload_check_action(ps, act) == check_action_walk(ps, act, 1, FALSE, FALSE)

\* try_ingress: the tunnel netdev a TUNNEL_POP action targets, or "none"
try_ingress(ps, act) ==
    LET i == dp_netdev_action_get(act, "TUNNEL_POP") IN
    IF i = 0 THEN "none"
    ELSE IF netdev_ports_get(ps, act[i].port) THEN act[i].port ELSE "none"

\* try_tnlflow: the flow matches on a tunnel vport that owns an Aux
try_tnlflow(f, inport) == flow_tnl_dst_is_set(f) /\ inport = PortVtp

\* ------------------------------------------------------------ the driver
netdev_flow_put(h, dev, ufid, ok) == IF ok THEN h \cup {<<dev, ufid>>} ELSE h
netdev_flow_del(h, dev, ufid) == h \ {<<dev, ufid>>}
netdev_flow_del_ret(h, dev, ufid) == IF <<dev, ufid>> \in h THEN 0 ELSE -1

\* ----------------------------------------------------- composition engine
\* The functions below work on a record m of the state the worker changes:
\* ing (ingress_flows), tnl (tnl_pop_flows), hw, ref and st (status words).
\* and calls, the calls made to the driver: flow_put with the driver's
\* answer and flow_del.
Machine == [ing |-> ingress_flows, tnl |-> tnl_pop_flows, hw |-> hw,
            ref |-> ref, st |-> status, calls |-> {}, muts |-> {}]

\* netdev_flow_put of key with the driver's answer ans; netdev_flow_del
DrvPut(key, ans) == [op |-> "put", key |-> key, ans |-> ans]
DrvDel(key) == [op |-> "del", key |-> key, ans |-> "none"]

\* tnl_pop_flow_get_ufid: the composed ufid of an (ingress, tnl-pop) pair
tnl_pop_flow_get_ufid(inflow, tnlflow) ==
    Xor(mega_ufid(inflow.flow), mega_ufid(tnlflow.flow))
\* the driver key tnl_pop_flow_op_put / _del / _stat use for the pair
tnl_pop_flow_key(inflow, tnlflow) ==
    << inflow.ingress_netdev, tnl_pop_flow_get_ufid(inflow, tnlflow) >>

ingress_flow_new(f, inport) ==
    [flow |-> f, ingress_netdev |-> inport, status |-> "NONE"]
tnlflow_new(f) == [flow |-> f, ref |-> 0, status |-> "NONE"]

\* a write to Aux state: the field written and the mode ("rd" or "wr") in
\* which the writer holds aux->rwlock at that line
AuxWrite(field, lock) == [field |-> field, lock |-> lock]

\* ingress_flow_op_flush: delete the composed entry of inflow with every T
ingress_flow_op_flush(m, inflow) ==
    LET keys == {tnl_pop_flow_key(inflow, m.tnl[t]) : t \in DOMAIN m.tnl}
    IN [m EXCEPT !.hw = @ \ keys,
                 !.calls = @ \cup {DrvDel(k) : k \in keys}]
\* tnlflow_op_flush: delete the composed entry of tnlflow with every I
tnlflow_op_flush(m, tnlflow) ==
    LET keys == {tnl_pop_flow_key(m.ing[i], tnlflow) : i \in DOMAIN m.ing}
    IN [m EXCEPT !.hw = @ \ keys,
                 !.calls = @ \cup {DrvDel(k) : k \in keys}]

\* del_ingress: [m, ret]
del_ingress(m, f) ==
    LET k == mega_ufid(f)
        found == k \in DOMAIN m.ing
    IN IF found /\ m.ing[k].flow = f
       THEN LET m1 == ingress_flow_op_flush(m, m.ing[k])
                m2 == [m1 EXCEPT !.st = store_status(@, f, "NONE")]
                \* ingress_flow_del: hmap_remove and ingress_flow_free
                m3 == [m2 EXCEPT !.ing = hmap_remove(@, k),
                                 !.ref = dp_netdev_flow_unref(@, f),
                                 !.muts = @ \cup {AuxWrite("ingress_flows", "wr")}]
            IN [m |-> m3, ret |-> 0]
       ELSE [m |-> m, ret |-> -1]

\* try_del_ingress: [m, ret]
try_del_ingress(m, ps, f, act) ==
    IF try_ingress(ps, act) = "none" THEN [m |-> m, ret |-> -1]
    ELSE del_ingress(m, f)

\* try_del_tnlflow: [m, ret]
try_del_tnlflow(m, f, inport) ==
    LET k == mega_ufid(f) IN
    IF ~try_tnlflow(f, inport) THEN [m |-> m, ret |-> -1]
    ELSE IF k \in DOMAIN m.tnl /\ m.tnl[k].flow = f
    THEN LET m1 == tnlflow_op_flush(m, m.tnl[k])
             m2 == [m1 EXCEPT !.st = store_status(@, f, "NONE")]
             \* tnlflow_del: hmap_remove and tnlflow_free
             m3 == [m2 EXCEPT !.tnl = hmap_remove(@, k),
                              !.ref = dp_netdev_flow_unref(@, f),
                              !.muts = @ \cup {AuxWrite("tnl_pop_flows", "wr")}]
         IN [m |-> m3, ret |-> 0]
    ELSE [m |-> m, ret |-> -1]

\* a DEL that leaves the status word alone when the netdev is gone
dp_netdev_flow_offload_del_unset(m, ps, it) ==
    LET f == it.flow
        netdev == in_port(f)
    IN IF ~netdev_ports_get(ps, netdev)
       THEN [m |-> m, ret |-> -1]
       ELSE
       LET r1 == try_del_ingress(m, ps, f, it.dp_act)
           r2 == try_del_tnlflow(m, f, netdev)
           ret3 == netdev_flow_del_ret(m.hw, netdev, mega_ufid(f))
           m3 == [m EXCEPT !.hw = netdev_flow_del(@, netdev, mega_ufid(f)),
                           !.calls = @ \cup {DrvDel(<< netdev, mega_ufid(f) >>)},
                           !.st = store_status(@, f, "NONE")]
           r == IF r1.ret = 0 THEN r1
                ELSE IF r2.ret = 0 THEN r2
                ELSE [m |-> m3, ret |-> ret3]
       IN IF r.ret = 0
          THEN [m |-> [r.m EXCEPT !.ref = dp_netdev_flow_unref(@, f)], ret |-> 0]
          ELSE [m |-> r.m, ret |-> -1]

\* dp_netdev_flow_offload_del: the whole DEL of item it, [m, ret]
dp_netdev_flow_offload_del(m, ps, it) ==
    LET f == it.flow
        netdev == in_port(f)
    IN IF ~netdev_ports_get(ps, netdev)
       THEN [m |-> [m EXCEPT !.st = store_status(@, f, "NONE")], ret |-> -1]
       ELSE
       LET r1 == try_del_ingress(m, ps, f, it.dp_act)
           r2 == try_del_tnlflow(m, f, netdev)
           ret3 == netdev_flow_del_ret(m.hw, netdev, mega_ufid(f))
           m3 == [m EXCEPT !.hw = netdev_flow_del(@, netdev, mega_ufid(f)),
                           !.calls = @ \cup {DrvDel(<< netdev, mega_ufid(f) >>)},
                           !.st = store_status(@, f, "NONE")]
           r == IF r1.ret = 0 THEN r1
                ELSE IF r2.ret = 0 THEN r2
                ELSE [m |-> m3, ret |-> ret3]
       IN IF r.ret = 0
          THEN [m |-> [r.m EXCEPT !.ref = dp_netdev_flow_unref(@, f)], ret |-> 0]
          ELSE [m |-> r.m, ret |-> -1]

\* try_offload_tnl_pop: program the new ingress entry inflow against every
\* tnl-pop entry; acc is the set of tnl-pop ufids whose composed put the
\* driver accepts.  [m, hint]
try_offload_tnl_pop(m, inflow, acc) ==
    LET T == DOMAIN m.tnl
        \* the put loop: FULL and ref ++ on success, FAILED on refusal
        tnl1 == [t \in T |->
                   IF t \in acc
                   THEN [m.tnl[t] EXCEPT !.status = "FULL", !.ref = @ + 1]
                   ELSE [m.tnl[t] EXCEPT !.status = "FAILED"]]
        put == {tnl_pop_flow_key(inflow, m.tnl[t]) : t \in T \cap acc}
        need_rollback == \E t \in T : t \notin acc
        \* the rollback loop
        orphans == {t \in T : tnl1[t].status = "FAILED" /\ tnl1[t].ref = 0}
        kept == {t \in T : tnl1[t].status = "FAILED" /\ tnl1[t].ref # 0}
        gone(f) == {t \in orphans : m.tnl[t].flow = f}
        st2 == [f \in DOMAIN m.st |->
                  IF gone(f) # {}
                  THEN [base |-> "FAILED", in_progress |-> FALSE]
                  ELSE m.st[f]]
        ref2 == [f \in DOMAIN m.ref |-> m.ref[f] - Cardinality(gone(f))]
        tnl2 == [t \in T \ orphans |-> tnl1[t]]
        puts == {DrvPut(tnl_pop_flow_key(inflow, m.tnl[t]),
                        IF t \in acc THEN "full" ELSE "fail") : t \in T}
        dels == {DrvDel(k) : k \in put}
        \* all of it between ovs_rwlock_wrlock and ovs_rwlock_unlock
        writes == {AuxWrite("tnlflow.status", "wr") : t \in T}
                  \cup {AuxWrite("tnlflow.ref", "wr") : t \in T \cap acc}
        removes == {AuxWrite("tnl_pop_flows", "wr") : t \in orphans}
    IN IF need_rollback
       THEN [m |-> [m EXCEPT !.tnl = tnl2, !.hw = (@ \cup put) \ put,
                             !.st = st2, !.ref = ref2,
                             !.calls = @ \cup puts \cup dels,
                             !.muts = @ \cup writes \cup removes],
             hint |-> IF kept # {} THEN -1 ELSE 0]
       ELSE [m |-> [m EXCEPT !.tnl = tnl1, !.hw = @ \cup put,
                             !.calls = @ \cup puts,
                             !.muts = @ \cup writes],
             hint |-> 0]

\* ingress_flow_validate: program the match-only form under the flow's own
\* ufid and delete it again
ingress_flow_validate(m, inflow, ok) ==
    LET k == << inflow.ingress_netdev, mega_ufid(inflow.flow) >> IN
    IF ok THEN [m EXCEPT !.hw = (@ \cup {k}) \ {k},
                         !.calls = @ \cup {DrvPut(k, "mask"), DrvDel(k)}]
    ELSE [m EXCEPT !.calls = @ \cup {DrvPut(k, "fail")}]

\* an ingress ADD that does not look the flow up in the ingress set
dp_netdev_try_offload_ingress_add_again(m, ps, f, inport, dp_act, own_ok, acc) ==
    LET i == dp_netdev_action_get(dp_act, "TUNNEL_POP")
        k == mega_ufid(f)
        inflow == ingress_flow_new(f, inport)
        \* ingress_flow_new takes a flow reference, ingress_flow_free drops it
        m1 == [m EXCEPT !.ref = dp_netdev_flow_ref(@, f)]
        r == try_offload_tnl_pop(ingress_flow_validate(m1, inflow, TRUE),
                                 inflow, acc)
    IN IF i = 0 THEN [m |-> m, status |-> "NONE"]
       ELSE IF ~netdev_ports_get(ps, dp_act[i].port)
       THEN [m |-> m, status |-> "NONE"]
       ELSE IF ~own_ok
       THEN [m |-> [ingress_flow_validate(m1, inflow, FALSE)
                      EXCEPT !.ref = dp_netdev_flow_unref(@, f)],
             status |-> "FAILED"]
       ELSE IF r.hint # 0
       THEN [m |-> [r.m EXCEPT !.ref = dp_netdev_flow_unref(@, f)],
             status |-> "FAILED"]
       ELSE [m |-> [r.m EXCEPT !.ing = hmap_insert(@, k, inflow),
                               !.muts = @ \cup {AuxWrite("ingress_flows", "wr")}],
             status |-> "FULL"]

\* dp_netdev_try_offload_ingress_add: [m, status]
dp_netdev_try_offload_ingress_add(m, ps, f, inport, dp_act, own_ok, acc) ==
    LET i == dp_netdev_action_get(dp_act, "TUNNEL_POP")
        k == mega_ufid(f)
        inflow == ingress_flow_new(f, inport)
        \* ingress_flow_new takes a flow reference, ingress_flow_free drops it
        m1 == [m EXCEPT !.ref = dp_netdev_flow_ref(@, f)]
        r == try_offload_tnl_pop(ingress_flow_validate(m1, inflow, TRUE),
                                 inflow, acc)
    IN IF i = 0 THEN [m |-> m, status |-> "NONE"]
       ELSE IF ~netdev_ports_get(ps, dp_act[i].port)
       THEN [m |-> m, status |-> "NONE"]
       ELSE IF k \in DOMAIN m.ing THEN [m |-> m, status |-> "FAILED"]
       ELSE IF ~own_ok
       THEN [m |-> [ingress_flow_validate(m1, inflow, FALSE)
                      EXCEPT !.ref = dp_netdev_flow_unref(@, f)],
             status |-> "FAILED"]
       ELSE IF r.hint # 0
       THEN [m |-> [r.m EXCEPT !.ref = dp_netdev_flow_unref(@, f)],
             status |-> "FAILED"]
       ELSE [m |-> [r.m EXCEPT !.ing = hmap_insert(@, k, inflow),
                               !.muts = @ \cup {AuxWrite("ingress_flows", "wr")}],
             status |-> "FULL"]

\* a tnl-pop path whose rollback leaves the entries it programmed
dp_netdev_try_offload_tnl_pop_kept(m, f, inport, ord, acc) ==
    LET k == mega_ufid(f)
        found == k \in DOMAIN m.tnl
        I == DOMAIN m.ing
        fails == {j \in 1 .. Len(ord) : ord[j] \notin acc}
        need_rollback == fails # {}
        first == IF need_rollback
                 THEN CHOOSE j \in fails : \A j2 \in fails : j <= j2
                 ELSE Len(ord) + 1
        full == {ord[j] : j \in 1 .. (first - 1)}
        tnlflow == IF found THEN m.tnl[k] ELSE tnlflow_new(f)
        \* tnlflow_new takes a flow reference
        ref1 == IF found THEN m.ref ELSE dp_netdev_flow_ref(m.ref, f)
        ing1 == [i \in I |->
                   [m.ing[i] EXCEPT !.status = IF i \in full THEN "FULL" ELSE "NONE"]]
        put == {tnl_pop_flow_key(m.ing[i], tnlflow) : i \in full}
        \* ref ++ per accepted put, ref -- per rolled-back put
        tnlflow1 == [tnlflow EXCEPT !.ref =
                        IF need_rollback
                        THEN (@ + Cardinality(full)) - Cardinality(full)
                        ELSE @ + Cardinality(full)]
        hw1 == m.hw \cup put
        \* the puts up to the first refusal, and the deletes of the rollback
        calls1 == {DrvPut(e, "full") : e \in put}
                  \cup (IF need_rollback
                        THEN {DrvPut(tnl_pop_flow_key(m.ing[ord[first]], tnlflow),
                                     "fail")}
                        ELSE {})
        \* between ovs_rwlock_rdlock and ovs_rwlock_unlock: inflow->status
        \* of every ingress entry, and ref of a tnlflow found in the table
        writes == {AuxWrite("inflow.status", "rd") : i \in I}
                  \cup {AuxWrite("tnlflow.ref", "rd") : i \in IF found THEN full ELSE {}}
        \* tnlflow_insert and tnlflow_del take the write lock
        tabwrite == {AuxWrite("tnl_pop_flows", "wr")}
        m1 == [m EXCEPT !.ing = ing1, !.hw = hw1, !.ref = ref1,
                        !.calls = @ \cup calls1, !.muts = @ \cup writes]
    IN IF ~try_tnlflow(f, inport) THEN [m |-> m, status |-> "NONE"]
       ELSE IF found /\ m.tnl[k].flow # f THEN [m |-> m, status |-> "FAILED"]
       ELSE IF ~found
       THEN IF ~need_rollback
            THEN [m |-> [m1 EXCEPT !.tnl = hmap_insert(@, k, tnlflow1),
                                   !.muts = @ \cup tabwrite],
                  status |-> "FULL"]
            ELSE [m |-> [m1 EXCEPT !.ref = dp_netdev_flow_unref(@, f)],
                  status |-> "FAILED"]
       ELSE IF need_rollback
       THEN [m |-> [m1 EXCEPT !.tnl = hmap_remove(@, k),
                              !.ref = dp_netdev_flow_unref(@, f),
                              !.muts = @ \cup tabwrite],
             status |-> "FAILED"]
       ELSE [m |-> [m1 EXCEPT !.tnl[k] = tnlflow1], status |-> "FULL"]

\* dp_netdev_try_offload_tnl_pop: program tnl-pop flow f against every
\* ingress entry, in the order ord, stopping at the first refusal; acc is
\* the set of ingress ufids whose composed put the driver accepts.
\* [m, status]
dp_netdev_try_offload_tnl_pop(m, f, inport, ord, acc) ==
    LET k == mega_ufid(f)
        found == k \in DOMAIN m.tnl
        I == DOMAIN m.ing
        fails == {j \in 1 .. Len(ord) : ord[j] \notin acc}
        need_rollback == fails # {}
        first == IF need_rollback
                 THEN CHOOSE j \in fails : \A j2 \in fails : j <= j2
                 ELSE Len(ord) + 1
        full == {ord[j] : j \in 1 .. (first - 1)}
        tnlflow == IF found THEN m.tnl[k] ELSE tnlflow_new(f)
        \* tnlflow_new takes a flow reference
        ref1 == IF found THEN m.ref ELSE dp_netdev_flow_ref(m.ref, f)
        ing1 == [i \in I |->
                   [m.ing[i] EXCEPT !.status = IF i \in full THEN "FULL" ELSE "NONE"]]
        put == {tnl_pop_flow_key(m.ing[i], tnlflow) : i \in full}
        \* ref ++ per accepted put, ref -- per rolled-back put
        tnlflow1 == [tnlflow EXCEPT !.ref =
                        IF need_rollback
                        THEN (@ + Cardinality(full)) - Cardinality(full)
                        ELSE @ + Cardinality(full)]
        hw1 == IF need_rollback THEN (m.hw \cup put) \ put ELSE m.hw \cup put
        \* the puts up to the first refusal, and the deletes of the rollback
        calls1 == {DrvPut(e, "full") : e \in put}
                  \cup (IF need_rollback
                        THEN {DrvPut(tnl_pop_flow_key(m.ing[ord[first]], tnlflow),
                                     "fail")}
                             \cup {DrvDel(e) : e \in put}
                        ELSE {})
        \* between ovs_rwlock_rdlock and ovs_rwlock_unlock: inflow->status
        \* of every ingress entry, and ref of a tnlflow found in the table
        writes == {AuxWrite("inflow.status", "rd") : i \in I}
                  \cup {AuxWrite("tnlflow.ref", "rd") : i \in IF found THEN full ELSE {}}
        \* tnlflow_insert and tnlflow_del take the write lock
        tabwrite == {AuxWrite("tnl_pop_flows", "wr")}
        m1 == [m EXCEPT !.ing = ing1, !.hw = hw1, !.ref = ref1,
                        !.calls = @ \cup calls1, !.muts = @ \cup writes]
    IN IF ~try_tnlflow(f, inport) THEN [m |-> m, status |-> "NONE"]
       ELSE IF found /\ m.tnl[k].flow # f THEN [m |-> m, status |-> "FAILED"]
       ELSE IF ~found
       THEN IF ~need_rollback
            THEN [m |-> [m1 EXCEPT !.tnl = hmap_insert(@, k, tnlflow1),
                                   !.muts = @ \cup tabwrite],
                  status |-> "FULL"]
            ELSE [m |-> [m1 EXCEPT !.ref = dp_netdev_flow_unref(@, f)],
                  status |-> "FAILED"]
       ELSE IF need_rollback
       THEN [m |-> [m1 EXCEPT !.tnl = hmap_remove(@, k),
                              !.ref = dp_netdev_flow_unref(@, f),
                              !.muts = @ \cup tabwrite],
             status |-> "FAILED"]
       ELSE [m |-> [m1 EXCEPT !.tnl[k] = tnlflow1], status |-> "FULL"]

\* a normal path that reports FULL for every accepted put
dp_netdev_normal_offload_full(m, f, netdev, answer) ==
    [m |-> [m EXCEPT !.hw = netdev_flow_put(@, netdev, mega_ufid(f),
                                            answer # "fail"),
                     !.calls = @ \cup {DrvPut(<< netdev, mega_ufid(f) >>, answer)}],
     status |-> CASE answer = "full" -> "FULL"
                  [] answer = "mask" -> "FULL"
                  [] OTHER -> "FAILED"]

\* dp_netdev_normal_offload and the status dp_netdev_try_offload derives
\* from it; answer is the driver's: "fail", "mask" (match only) or "full"
dp_netdev_normal_offload(m, f, netdev, answer) ==
    [m |-> [m EXCEPT !.hw = netdev_flow_put(@, netdev, mega_ufid(f),
                                            answer # "fail"),
                     !.calls = @ \cup {DrvPut(<< netdev, mega_ufid(f) >>, answer)}],
     status |-> CASE answer = "full" -> "FULL"
                  [] answer = "mask" -> "MASK"
                  [] OTHER -> "FAILED"]

\* the end of dp_netdev_try_offload: publish status, and at exit: take the
\* extra flow reference on the not offloaded -> offloaded transition
try_offload_exit(m, f, old, st) ==
    [m EXCEPT !.st = store_status(@, f, st),
              !.ref = IF ~offload_status_offloaded(old)
                         /\ offload_status_offloaded(st)
                      THEN dp_netdev_flow_ref(@, f) ELSE @]

\* dp_netdev_try_offload from the call of dp_netdev_try_offload_tnl_pop on
try_offload_tnl_or_normal(m, f, old, ord, acc, answer) ==
    LET r == dp_netdev_try_offload_tnl_pop(m, f, in_port(f), ord, acc)
        n == dp_netdev_normal_offload(m, f, in_port(f), answer)
    IN IF r.status # "NONE"
       THEN try_offload_exit(r.m, f, old, r.status)
       ELSE try_offload_exit(n.m, f, old, n.status)

\* ---------------------------------------------------------- initial state
NoItem == [flow |-> "none", op |-> "none", old_dp_act |-> << >>, dp_act |-> << >>]

\* what a caller of pause remembers of the state its call started in: quiet
\* tells whether the list was empty, the worker idle and no producer inside
\* a call; the other fields are recorded only when it was
NoSnapshot ==
    [quiet |-> FALSE, req |-> TRUE, list |-> << >>, ing |-> EmptyTab,
     tnl |-> EmptyTab, hw |-> {}, status |-> << >>, nreq |-> 0, njoin |-> 0]

\* the state dp_netdev_offload_new leaves: an empty list, exit clear, req
\* set, the worker thread created; no flow offloaded.  ps is the set of
\* port tables to start from.
\* dpif_netdev_offload_used not running: no flow, no entry in hand
NoReader == [pc |-> "idle", flow |-> "none", ufid |-> -1, freed |-> FALSE,
             ret |-> "none"]

InitWith(ps, us) ==
    /\ list = << >>
    /\ process = FALSE
    /\ exit = FALSE
    /\ req = TRUE
    /\ thread = TRUE
    /\ wpc = "top"
    /\ offload = NoItem
    /\ old_status = "NONE"
    /\ wstatus = "NONE"
    /\ status = [f \in Flows |-> [base |-> "NONE", in_progress |-> FALSE]]
    /\ ref = [f \in Flows |-> 1]
    /\ dead = [f \in Flows |-> FALSE]
    /\ actions = [f \in Flows |-> InitAct(f)]
    /\ ports \in ps
    /\ ufids \in us
    /\ ingress_flows = EmptyTab
    /\ tnl_pop_flows = EmptyTab
    /\ hw = {}
    /\ drv = {}
    /\ mut = {}
    /\ rwlock = "free"
    /\ reader = NoReader
    /\ ppc = [p \in Producers |-> "idle"]
    /\ parg = [p \in Producers |-> NoItem]
    /\ cpc = [c \in Callers |-> "idle"]
    /\ cproc = [c \in Callers |-> FALSE]
    /\ pret = [c \in Callers |-> "none"]
    /\ nreq = 0
    /\ njoin = 0
    /\ prejoin = 0
    /\ drained = {}
    /\ snap = [c \in Callers |-> NoSnapshot]

\* every port has its netdev, or the NIC port p0 has none
Init == InitWith({NetdevPorts, NetdevPorts \ {"p0"}}, {BitUfids})
\* the assignments of distinct ufids out of 0 .. MaxUfid to the flows
UfidAssignments ==
    {u \in [Flows -> 0 .. MaxUfid] :
       \A f \in Flows, g \in Flows : f # g => u[f] # u[g]}
\* every port has its netdev, the ufids are any distinct ones
InitUfid == InitWith({NetdevPorts}, UfidAssignments)
\* every port has its netdev
InitPorts == InitWith({NetdevPorts}, {BitUfids})

SetMachine(m) ==
    /\ ingress_flows' = m.ing
    /\ tnl_pop_flows' = m.tnl
    /\ hw' = m.hw
    /\ drv' = m.calls
    /\ mut' = m.muts
    \* ingress_flow_free / tnlflow_free of the entry the reader has in hand
    /\ reader' = [reader EXCEPT !.freed =
                     \/ @
                     \/ reader.pc = "inflow" /\ reader.ufid \notin DOMAIN m.ing
                     \/ reader.pc = "tnlflow" /\ reader.ufid \notin DOMAIN m.tnl]
    /\ ref' = m.ref
    /\ status' = m.st

\* xpthread_cond_signal(&cond): a worker blocked in cond_wait goes back to
\* check_again; with no waiter the signal is lost
cond_signal(pc) == IF pc = "wait" THEN "top" ELSE pc

\* ------------------------------------------------------------- producers
netdev_is_flow_api_enabled == TRUE

\* the locked section without its test of IN_PROGRESS
enqueue_always(f, old_act, op) ==
    IF dp_netdev_flow_ref_ok(ref, f)
    THEN /\ ref' = dp_netdev_flow_ref(ref, f)
         /\ status' = [status EXCEPT ![f].in_progress = TRUE]
         /\ list' = Append(list, [flow |-> f, op |-> op,
                                  old_dp_act |-> old_act, dp_act |-> << >>])
         /\ wpc' = IF ~process THEN cond_signal(wpc) ELSE wpc
    ELSE UNCHANGED << ref, status, list, wpc >>

\* the locked section with the test of process turned round: the condvar
\* is signalled only while the worker is processing
enqueue_unsignalled(f, old_act, op) ==
    IF ~flow_offload_in_progress(status, f) /\ dp_netdev_flow_ref_ok(ref, f)
    THEN /\ ref' = dp_netdev_flow_ref(ref, f)
         /\ status' = [status EXCEPT ![f].in_progress = TRUE]
         /\ list' = Append(list, [flow |-> f, op |-> op,
                                  old_dp_act |-> old_act, dp_act |-> << >>])
         /\ wpc' = IF process THEN cond_signal(wpc) ELSE wpc
    ELSE UNCHANGED << ref, status, list, wpc >>

\* dp_netdev_alloc_flow_offload + status |= IN_PROGRESS +
\* dp_netdev_append_flow_offload, the body of the producers' locked section
enqueue(f, old_act, op) ==
    IF ~flow_offload_in_progress(status, f) /\ dp_netdev_flow_ref_ok(ref, f)
    THEN /\ ref' = dp_netdev_flow_ref(ref, f)
         /\ status' = [status EXCEPT ![f].in_progress = TRUE]
         /\ list' = Append(list, [flow |-> f, op |-> op,
                                  old_dp_act |-> old_act, dp_act |-> << >>])
         /\ wpc' = IF ~process THEN cond_signal(wpc) ELSE wpc
    ELSE UNCHANGED << ref, status, list, wpc >>

\* queue_netdev_flow_put up to the mutex: the feature switch and the req
\* gate.  A MOD is called by the thread that has just replaced the flow's
\* actions by new_act, with the replaced list as old_act.
queue_netdev_flow_put_gate(p, f, op, new_act) ==
    /\ ppc[p] = "idle"
    /\ op \in {"ADD", "MOD"}
    /\ nreq' = nreq + 1
    /\ actions' = IF op = "MOD" THEN [actions EXCEPT ![f] = new_act] ELSE actions
    /\ IF netdev_is_flow_api_enabled /\ req
       THEN /\ ppc' = [ppc EXCEPT ![p] = "lock"]
            /\ parg' = [parg EXCEPT ![p] =
                          [flow |-> f, op |-> op,
                           old_dp_act |-> IF op = "MOD" THEN actions[f] ELSE << >>,
                           dp_act |-> << >>]]
       ELSE UNCHANGED << ppc, parg >>
    /\ UNCHANGED << qvars, wvars, status, ref, dead, tvars, cvars, ports, ufids, drv, mut, avars,
                    njoin, prejoin, drained, snap >>

\* queue_netdev_flow_put under the mutex
queue_netdev_flow_put_locked(p) ==
    /\ ppc[p] = "lock"
    /\ enqueue(parg[p].flow, parg[p].old_dp_act, parg[p].op)
    /\ ppc' = [ppc EXCEPT ![p] = "idle"]
    /\ parg' = [parg EXCEPT ![p] = NoItem]
    /\ UNCHANGED << process, exit, req, thread, offload, old_status, wstatus,
                    dead, actions, tvars, cvars, ports, ufids, drv, mut, avars, gvars >>

\* queue_netdev_flow_del: all of it under the mutex, and no gate
queue_netdev_flow_del(f) ==
    /\ nreq' = nreq + 1
    /\ enqueue(f, << >>, "DEL")
    /\ UNCHANGED << process, exit, req, thread, offload, old_status, wstatus,
                    dead, actions, tvars, pvars, cvars, ports, ufids, drv, mut, avars, njoin, prejoin,
                    drained, snap >>

\* the dataplane removes the flow: flow->dead is set (the classifier's own
\* reference is kept here for the length of a behaviour)
flow_remove(f) ==
    /\ ~dead[f]
    /\ nreq' = nreq + 1
    /\ dead' = [dead EXCEPT ![f] = TRUE]
    /\ UNCHANGED << qvars, wvars, status, ref, actions, tvars, pvars, cvars,
                    ports, ufids, drv, mut, avars, njoin, prejoin, drained, snap >>

\* ------------------------------------------------------------ the worker
\* dp_netdev_flow_offload_main, the locked section at the top of the loop:
\* leave on exit, pop the front item, or clear process and wait
worker_check ==
    /\ wpc = "top"
    /\ IF exit
       THEN /\ wpc' = "drain"
            /\ UNCHANGED << list, process, offload, prejoin >>
       ELSE IF list # << >>
       THEN /\ offload' = Head(list)
            /\ list' = Tail(list)
            /\ process' = TRUE
            /\ wpc' = "dispatch"
            /\ prejoin' = IF prejoin > 0 THEN prejoin - 1 ELSE 0
       ELSE /\ process' = FALSE
            /\ wpc' = "wait"
            /\ UNCHANGED << list, offload, prejoin >>
    /\ UNCHANGED << exit, req, thread, old_status, wstatus, fvars, tvars,
                    pvars, cvars, ports, ufids, drv, mut, avars, nreq, njoin, drained, snap >>

\* case DP_NETDEV_FLOW_OFFLOAD_OP_DEL: the live actions are read into
\* dp_act and dp_netdev_flow_offload_del runs
worker_del ==
    /\ wpc = "dispatch"
    /\ offload.op = "DEL"
    /\ LET it == [offload EXCEPT !.dp_act = actions[offload.flow]]
           r == dp_netdev_flow_offload_del(Machine, ports, it)
       IN /\ SetMachine(r.m)
          /\ offload' = it
    /\ wpc' = "free"
    /\ UNCHANGED << qvars, old_status, wstatus, dead, actions, pvars, cvars,
                    ports, ufids, rwlock, gvars >>

\* cases ADD and MOD: dp_netdev_try_offload up to the first place where it
\* has published a status word and goes on working.  own is the driver's
\* answer to a put under the flow's own ufid, acc the set of partner ufids
\* whose composed put it accepts, ord the order the ingress table is walked.
dp_netdev_try_offload(own, acc, ord) ==
    /\ wpc = "dispatch"
    /\ offload.op \in {"ADD", "MOD"}
    /\ LET f == offload.flow
           it == [offload EXCEPT !.dp_act = actions[f]]
           old == flow_offload_status(status, f)
           m == Machine
           add == dp_netdev_try_offload_ingress_add(m, ports, f, in_port(f),
                                                    it.dp_act, own # "fail", acc)
       IN
       /\ old_status' = old
       /\ IF dead[f] \/ ~netdev_ports_get(ports, in_port(f))
          THEN \* return -1, nothing published
               /\ offload' = it
               /\ wpc' = "free"
               /\ drv' = {}
               /\ mut' = {}
               /\ UNCHANGED << status, ref, tvars, wstatus, reader >>
          ELSE IF ~offload_check_action(ports, it.dp_act)
          THEN IF it.op = "ADD" \/ ~offload_status_offloaded(old)
               THEN /\ status' = store_status(status, f, "FAILED")
                    /\ offload' = it
                    /\ wpc' = "free"
                    /\ drv' = {}
                    /\ mut' = {}
                    /\ UNCHANGED << ref, tvars, wstatus, reader >>
               ELSE \* a MOD to actions the hardware does not take: delete
                    /\ offload' = [it EXCEPT !.op = "DEL"]
                    /\ SetMachine(dp_netdev_flow_offload_del(
                                      m, ports, [it EXCEPT !.op = "DEL"]).m)
                    /\ wstatus' = "FAILED"
                    /\ wpc' = "publish_failed"
          ELSE IF it.op = "ADD"
          THEN /\ offload' = it
               /\ IF add.status # "NONE"
                  THEN /\ SetMachine(add.m)
                       /\ wstatus' = add.status
                       /\ wpc' = "publish"
                  ELSE /\ SetMachine(try_offload_tnl_or_normal(
                                         m, f, old, ord, acc, own))
                       /\ wpc' = "free"
                       /\ UNCHANGED wstatus
          ELSE \* MOD: dp_netdev_try_offload_ingress looks at the prior actions
               /\ offload' = it
               /\ IF try_ingress(ports, it.old_dp_act) # "none"
                  THEN /\ SetMachine(del_ingress(m, f).m)
                       /\ wpc' = "reeval"
                       /\ UNCHANGED wstatus
                  ELSE /\ SetMachine(try_offload_tnl_or_normal(
                                         m, f, old, ord, acc, own))
                       /\ wpc' = "free"
                       /\ UNCHANGED wstatus
    /\ UNCHANGED << qvars, dead, actions, pvars, cvars, ports, ufids, rwlock,
                    gvars >>

\* dp_netdev_try_offload after del_ingress of a MOD returned: the tnl-pop
\* path or the normal path, the final status and the exit reference
try_offload_reeval(own, acc, ord) ==
    /\ wpc = "reeval"
    /\ SetMachine(try_offload_tnl_or_normal(Machine, offload.flow, old_status,
                                            ord, acc, own))
    /\ wpc' = "free"
    /\ UNCHANGED << qvars, offload, old_status, wstatus, dead, actions, pvars,
                    cvars, ports, ufids, rwlock, gvars >>

\* dp_netdev_try_offload after dp_netdev_try_offload_ingress returned FULL
\* or FAILED: publish it, take the exit reference
try_offload_publish ==
    /\ wpc = "publish"
    /\ SetMachine(try_offload_exit(Machine, offload.flow, old_status, wstatus))
    /\ wpc' = "free"
    /\ UNCHANGED << qvars, offload, old_status, wstatus, dead, actions, pvars,
                    cvars, ports, ufids, rwlock, gvars >>

\* dp_netdev_try_offload after the delete of an unoffloadable MOD: publish
\* FAILED and return -1
try_offload_publish_failed ==
    /\ wpc = "publish_failed"
    /\ status' = store_status(status, offload.flow, "FAILED")
    /\ wpc' = "free"
    /\ UNCHANGED << qvars, offload, old_status, wstatus, ref, dead, actions,
                    tvars, pvars, cvars, ports, ufids, drv, mut, avars, gvars >>

\* dp_netdev_free_flow_offload at the end of the loop body
worker_free ==
    /\ wpc = "free"
    /\ ref' = dp_netdev_flow_unref(ref, offload.flow)
    /\ offload' = NoItem
    /\ old_status' = "NONE"
    /\ wstatus' = "NONE"
    /\ wpc' = "top"
    /\ drv' = {}
    /\ mut' = {}
    /\ UNCHANGED << qvars, status, dead, actions, tvars, pvars, cvars, ports,
                    ufids, avars, gvars >>

RECURSIVE drain_refs(_, _)
\* the reference counts after dp_netdev_free_flow_offload of every item of l
drain_refs(r, l) ==
    IF l = << >> THEN r
    ELSE drain_refs(dp_netdev_flow_unref(r, Head(l).flow), Tail(l))

\* a drain loop that frees the items and leaves the status words alone
drain_status_kept(st, l) == st

\* the status words after the drain loop: NONE for the flow of every item
drain_status(st, l) ==
    [f \in DOMAIN st |->
       IF \E i \in DOMAIN l : l[i].flow = f
       THEN [base |-> "NONE", in_progress |-> FALSE]
       ELSE st[f]]

\* a drain that has the driver delete the entry of every item's flow
worker_drain_del ==
    /\ wpc = "drain"
    /\ status' = drain_status(status, list)
    /\ ref' = drain_refs(ref, list)
    /\ drained' = {list[i].flow : i \in 1 .. prejoin}
    /\ list' = << >>
    /\ prejoin' = IF Len(list') < prejoin THEN Len(list') ELSE prejoin
    /\ hw' = hw \ {<< in_port(list[i].flow), mega_ufid(list[i].flow) >> :
                       i \in DOMAIN list}
    /\ drv' = {DrvDel(<< in_port(list[i].flow), mega_ufid(list[i].flow) >>) :
                 i \in DOMAIN list}
    /\ mut' = {}
    /\ wpc' = "done"
    /\ UNCHANGED << process, exit, req, thread, offload, old_status, wstatus,
                    dead, actions, ingress_flows, tnl_pop_flows, pvars, cvars,
                    ports, ufids, avars, nreq, njoin, snap >>

\* the drain after the loop was left on exit, under the mutex; the thread
\* function returns
worker_drain ==
    /\ wpc = "drain"
    /\ status' = drain_status(status, list)
    /\ ref' = drain_refs(ref, list)
    /\ drained' = {list[i].flow : i \in 1 .. prejoin}
    /\ list' = << >>
    /\ prejoin' = IF Len(list') < prejoin THEN Len(list') ELSE prejoin
    /\ drv' = {}
    /\ mut' = {}
    /\ wpc' = "done"
    /\ UNCHANGED << process, exit, req, thread, offload, old_status, wstatus,
                    dead, actions, tvars, pvars, cvars, ports, ufids, avars, nreq, njoin,
                    snap >>

\* ------------------------------------------------- pause / resume / join
\* dp_netdev_offload_pause by thread c: the test of req
pause_test(c) ==
    /\ cpc[c] = "idle"
    /\ IF req
       THEN /\ cpc' = [cpc EXCEPT ![c] = "pause_store"]
            /\ UNCHANGED pret
       ELSE /\ pret' = [pret EXCEPT ![c] = "false"]
            /\ UNCHANGED cpc
    /\ snap' = [snap EXCEPT ![c] =
                    IF list = << >> /\ wpc \in {"top", "wait"}
                       /\ \A p \in Producers : ppc[p] = "idle"
                    THEN [quiet |-> TRUE, req |-> req, list |-> list,
                          ing |-> ingress_flows, tnl |-> tnl_pop_flows,
                          hw |-> hw, status |-> status, nreq |-> nreq,
                          njoin |-> njoin]
                    ELSE NoSnapshot]
    /\ UNCHANGED << qvars, wvars, fvars, tvars, pvars, cproc, ports, ufids, drv, mut, avars, nreq,
                    njoin, prejoin, drained >>

\* dp_netdev_offload_pause: the store of false to req
pause_store(c) ==
    /\ cpc[c] = "pause_store"
    /\ req' = FALSE
    /\ cpc' = [cpc EXCEPT ![c] = "wait_read"]
    /\ UNCHANGED << list, process, exit, thread, wvars, fvars, tvars, pvars,
                    cproc, pret, ports, ufids, drv, mut, avars, gvars >>

\* dp_netdev_wait_offload_done: the read of process, outside the mutex.
\* Reading true makes target false and the loop goes round.
wait_read(c) ==
    /\ cpc[c] = "wait_read"
    /\ cproc' = [cproc EXCEPT ![c] = process]
    /\ cpc' = [cpc EXCEPT ![c] = IF ~process THEN "wait_lock" ELSE "wait_read"]
    /\ UNCHANGED << qvars, wvars, fvars, tvars, pvars, pret, ports, ufids, drv, mut, avars, gvars >>

\* dp_netdev_wait_offload_done: the locked test of the list, after process
\* was read false.  A non-empty list signals and goes round; an empty one
\* ends the loop, and pause returns true.
wait_lock(c) ==
    /\ cpc[c] = "wait_lock"
    /\ IF list # << >>
       THEN /\ wpc' = cond_signal(wpc)
            /\ cpc' = [cpc EXCEPT ![c] = "wait_read"]
            /\ UNCHANGED pret
       ELSE /\ cpc' = [cpc EXCEPT ![c] = "idle"]
            /\ pret' = [pret EXCEPT ![c] = "true"]
            /\ UNCHANGED wpc
    /\ UNCHANGED << qvars, offload, old_status, wstatus, fvars, tvars, pvars,
                    cproc, ports, ufids, drv, mut, avars, gvars >>

\* a resume that switches req on whatever prev is
dp_netdev_offload_resume_on(c) ==
    /\ cpc[c] = "idle"
    /\ pret[c] # "none"
    /\ req' = TRUE
    /\ pret' = [pret EXCEPT ![c] = "none"]
    /\ UNCHANGED << list, process, exit, thread, wvars, fvars, tvars, pvars,
                    cpc, cproc, ports, ufids, drv, mut, avars, gvars >>

\* dp_netdev_offload_resume(prev) by thread c, prev being what its pause
\* returned
dp_netdev_offload_resume(c) ==
    /\ cpc[c] = "idle"
    /\ pret[c] # "none"
    /\ req' = (pret[c] = "true")
    /\ pret' = [pret EXCEPT ![c] = "none"]
    /\ UNCHANGED << list, process, exit, thread, wvars, fvars, tvars, pvars,
                    cpc, cproc, ports, ufids, drv, mut, avars, gvars >>

\* a join that sets exit and does not signal the condvar
join_call_unsignalled(c) ==
    /\ cpc[c] = "idle"
    /\ thread
    /\ njoin < MaxJoin
    /\ njoin' = njoin + 1
    /\ exit' = TRUE
    /\ UNCHANGED wpc
    /\ cpc' = [cpc EXCEPT ![c] = "join"]
    /\ prejoin' = Len(list)
    /\ drained' = {}
    /\ UNCHANGED << list, process, req, thread, offload, old_status, wstatus,
                    fvars, tvars, pvars, cproc, pret, ports, ufids, drv, mut, avars, nreq, snap >>

\* dp_netdev_join_offload_thread up to xpthread_join: exit is set and the
\* condvar signalled under the mutex
join_call(c) ==
    /\ cpc[c] = "idle"
    /\ thread
    /\ njoin < MaxJoin
    /\ njoin' = njoin + 1
    /\ exit' = TRUE
    /\ wpc' = cond_signal(wpc)
    /\ cpc' = [cpc EXCEPT ![c] = "join"]
    /\ prejoin' = Len(list)
    /\ drained' = {}
    /\ UNCHANGED << list, process, req, thread, offload, old_status, wstatus,
                    fvars, tvars, pvars, cproc, pret, ports, ufids, drv, mut, avars, nreq, snap >>

\* xpthread_join returns once the thread function has returned
join_return(c) ==
    /\ cpc[c] = "join"
    /\ wpc = "done"
    /\ thread' = FALSE
    /\ cpc' = [cpc EXCEPT ![c] = "idle"]
    /\ UNCHANGED << list, process, exit, req, wvars, fvars, tvars, pvars,
                    cproc, pret, ports, ufids, drv, mut, avars, gvars >>

\* dp_netdev_offload_restart: clear exit, create a fresh worker thread
dp_netdev_offload_restart(c) ==
    /\ cpc[c] = "idle"
    /\ ~thread
    /\ exit' = FALSE
    /\ thread' = TRUE
    /\ wpc' = "top"
    /\ UNCHANGED << list, process, req, offload, old_status, wstatus, fvars,
                    tvars, pvars, cvars, ports, ufids, drv, mut, avars, gvars >>

\* ---------------------------------------------------------- specifications
PutAnswers == {"fail", "mask", "full"}
\* the ufids a composed put of the request at hand can pair with
Partners == DOMAIN ingress_flows \cup DOMAIN tnl_pop_flows

WorkerRun ==
    \/ worker_check
    \/ worker_del
    \/ \E own \in PutAnswers, acc \in SUBSET Partners,
          ord \in Orders(DOMAIN ingress_flows) :
          dp_netdev_try_offload(own, acc, ord)
    \/ \E own \in PutAnswers, acc \in SUBSET Partners,
          ord \in Orders(DOMAIN ingress_flows) :
          try_offload_reeval(own, acc, ord)
    \/ try_offload_publish
    \/ try_offload_publish_failed
    \/ worker_free

\* the lifecycle calls of control thread c
Lifecycle(c) ==
    \/ pause_test(c)
    \/ pause_store(c)
    \/ wait_read(c)
    \/ wait_lock(c)
    \/ dp_netdev_offload_resume(c)
    \/ join_call(c)
    \/ join_return(c)
    \/ dp_netdev_offload_restart(c)

\* a producer call on flow f by thread p
Produce(p, f) ==
    \/ queue_netdev_flow_put_gate(p, f, "ADD", actions[f])
    \/ \E a \in ActLists : queue_netdev_flow_put_gate(p, f, "MOD", a)
    \/ queue_netdev_flow_del(f)
    \/ flow_remove(f)

\* The flows the concurrent specifications offer to the producers: an ingress
\* flow (which a MOD to an OUTPUT action turns into an ordinary one) and a
\* tnl-pop flow.
ConcFlows == {"I1", "T1"}
LifeFlows == {"T1", "N1"}

\* Producers and worker, freely interleaved.
Next ==
    \/ nreq < MaxReq /\ \E p \in Producers, f \in ConcFlows : Produce(p, f)
    \/ \E p \in Producers : queue_netdev_flow_put_locked(p)
    \/ WorkerRun

Spec == Init /\ [][Next]_vars

\* the calls the lifecycle specification offers: ADD and DEL
ProduceLife(p, f) ==
    \/ queue_netdev_flow_put_gate(p, f, "ADD", actions[f])
    \/ queue_netdev_flow_del(f)

\* the worker actions ADD and DEL requests of LifeFlows reach
WorkerLife ==
    \/ worker_check
    \/ worker_del
    \/ \E own \in PutAnswers, acc \in SUBSET Partners,
          ord \in Orders(DOMAIN ingress_flows) :
          dp_netdev_try_offload(own, acc, ord)
    \/ worker_free
    \/ worker_drain

\* Producers, worker and the lifecycle thread, freely interleaved.
NextLife ==
    \/ nreq < MaxLifeReq /\ \E p \in Producers, f \in LifeFlows : ProduceLife(p, f)
    \/ \E p \in Producers : queue_netdev_flow_put_locked(p)
    \/ WorkerLife
    \/ Lifecycle("ctl1")

SpecLife == InitPorts /\ [][NextLife]_vars

\* the pause and resume calls of control thread c
PauseResume(c) ==
    \/ pause_test(c)
    \/ pause_store(c)
    \/ wait_read(c)
    \/ wait_lock(c)
    \/ dp_netdev_offload_resume(c)

\* the worker's loop on ADD and DEL requests of LifeFlows
WorkerPause ==
    \/ worker_check
    \/ worker_del
    \/ \E own \in PutAnswers, acc \in SUBSET Partners,
          ord \in Orders(DOMAIN ingress_flows) :
          dp_netdev_try_offload(own, acc, ord)
    \/ worker_free

\* Producers, worker and several control threads pausing and resuming.
NextPause ==
    \/ nreq < MaxPauseReq /\ \E p \in Producers, f \in LifeFlows : ProduceLife(p, f)
    \/ \E p \in Producers : queue_netdev_flow_put_locked(p)
    \/ WorkerPause
    \/ \E c \in Callers : PauseResume(c)

SpecPause == InitPorts /\ [][NextPause]_vars

\* the worker is blocked on the condvar, the list is empty and no producer
\* is inside a call
Quiet ==
    /\ wpc = "wait"
    /\ list = << >>
    /\ \A p \in Producers : ppc[p] = "idle"

\* One request at a time: a producer calls only when the worker has
\* finished the request before; every flow is offered.
NextSeq ==
    \/ Quiet /\ nreq < MaxSeqReq /\ \E f \in Flows : Produce("pmd1", f)
    \/ queue_netdev_flow_put_locked("pmd1")
    \/ WorkerRun

SpecSeq == InitPorts /\ [][NextSeq]_vars

\* The flows SpecComp offers: two ingress flows, a tnl-pop flow and an
\* ordinary flow.
CompFlows == {"I1", "I2", "T1", "N1"}

\* One request at a time on the flows of CompFlows.
NextComp ==
    \/ Quiet /\ nreq < MaxCompReq /\ \E f \in CompFlows : Produce("pmd1", f)
    \/ queue_netdev_flow_put_locked("pmd1")
    \/ WorkerRun

SpecComp == InitPorts /\ [][NextComp]_vars

\* the worker's loop on ADD and DEL requests with a driver that accepts
\* every put
WorkerUfid ==
    \/ worker_check
    \/ worker_del
    \/ \E ord \in Orders(DOMAIN ingress_flows) :
          dp_netdev_try_offload("full", Partners, ord)
    \/ try_offload_publish
    \/ worker_free

\* One ADD or DEL at a time on flows of any distinct ufids.
NextUfid ==
    \/ /\ Quiet
       /\ nreq < MaxUfidReq
       /\ \E f \in Flows :
             \/ queue_netdev_flow_put_gate("pmd1", f, "ADD", actions[f])
             \/ queue_netdev_flow_del(f)
    \/ queue_netdev_flow_put_locked("pmd1")
    \/ WorkerUfid

SpecUfid == InitUfid /\ [][NextUfid]_vars

\* ------------------------------------------------------- fair scheduling
\* The steps of dp_netdev_wait_offload_done in a pause of control thread c.
WaitDone(c) ==
    \/ pause_store(c)
    \/ wait_read(c)
    \/ wait_lock(c)

\* Number of producer calls in one behaviour of SpecFair.
MaxFairReq == 2

\* One producer, the worker and the lifecycle thread, freely interleaved.
NextFair ==
    \/ nreq < MaxFairReq /\ \E f \in LifeFlows : ProduceLife("pmd1", f)
    \/ queue_netdev_flow_put_locked("pmd1")
    \/ WorkerLife
    \/ Lifecycle("ctl1")

\* Fair scheduling: the worker thread, whose driver calls return, goes on
\* whenever it can take a step, a producer inside its locked call gets the
\* mutex, and a control thread inside pause goes on; when producers and
\* control threads make their calls is left open.
FairLife ==
    /\ WF_vars(WorkerLife)
    /\ WF_vars(queue_netdev_flow_put_locked("pmd1"))
    /\ WF_vars(WaitDone("ctl1"))

SpecFair == InitPorts /\ [][NextFair]_vars /\ FairLife

\* Fair scheduling with the thread inside dp_netdev_join_offload_thread
\* scheduled as well: xpthread_join returns once the thread function has.
FairJoin ==
    /\ FairLife
    /\ WF_vars(join_return("ctl1"))

SpecJoin == InitPorts /\ [][NextFair]_vars /\ FairJoin

\* ------------------------------------------------- the Aux lock, a reader
\* Number of producer calls in one behaviour of SpecAux.
MaxAuxReq == 3

\* The flows SpecAux offers: an ingress flow and two tnl-pop flows.
AuxFlows == {"I1", "T1", "T2"}

\* try_offload_tnl_pop from ovs_rwlock_wrlock to the end of the put loop:
\* every tnl-pop entry is FULL with ref ++ when the driver took its composed
\* put, FAILED when it refused
tnl_pop_put_loop(m, inflow, acc) ==
    LET T == DOMAIN m.tnl
        tnl1 == [t \in T |->
                   IF t \in acc
                   THEN [m.tnl[t] EXCEPT !.status = "FULL", !.ref = @ + 1]
                   ELSE [m.tnl[t] EXCEPT !.status = "FAILED"]]
        put == {tnl_pop_flow_key(inflow, m.tnl[t]) : t \in T \cap acc}
        puts == {DrvPut(tnl_pop_flow_key(inflow, m.tnl[t]),
                        IF t \in acc THEN "full" ELSE "fail") : t \in T}
        writes == {AuxWrite("tnlflow.status", "wr") : t \in T}
                  \cup {AuxWrite("tnlflow.ref", "wr") : t \in T \cap acc}
    IN [m EXCEPT !.tnl = tnl1, !.hw = @ \cup put, !.calls = @ \cup puts,
                 !.muts = @ \cup writes]

\* try_offload_tnl_pop from the end of the put loop to ovs_rwlock_unlock:
\* the rollback loop.  [m, hint]
tnl_pop_rollback_loop(m, inflow) ==
    LET T == DOMAIN m.tnl
        need_rollback == \E t \in T : m.tnl[t].status = "FAILED"
        orphans == {t \in T : m.tnl[t].status = "FAILED" /\ m.tnl[t].ref = 0}
        kept == {t \in T : m.tnl[t].status = "FAILED" /\ m.tnl[t].ref # 0}
        full == {t \in T : m.tnl[t].status = "FULL"}
        gone(f) == {t \in orphans : m.tnl[t].flow = f}
        st2 == [f \in DOMAIN m.st |->
                  IF gone(f) # {}
                  THEN [base |-> "FAILED", in_progress |-> FALSE]
                  ELSE m.st[f]]
        ref2 == [f \in DOMAIN m.ref |-> m.ref[f] - Cardinality(gone(f))]
        tnl2 == [t \in T \ orphans |-> m.tnl[t]]
        put == {tnl_pop_flow_key(inflow, m.tnl[t]) : t \in full}
    IN IF need_rollback
       THEN [m |-> [m EXCEPT !.tnl = tnl2, !.hw = @ \ put,
                             !.st = st2, !.ref = ref2,
                             !.calls = @ \cup {DrvDel(k) : k \in put},
                             !.muts = @ \cup {AuxWrite("tnl_pop_flows", "wr") :
                                                t \in orphans}],
             hint |-> IF kept # {} THEN -1 ELSE 0]
       ELSE [m |-> m, hint |-> 0]

\* the ADD at the worker's hand gets as far as try_offload_tnl_pop: the
\* actions are offloadable and hold a TUNNEL_POP to a port with a netdev,
\* and the flow is not in the ingress set
ReachesTnlPopLock ==
    LET f == offload.flow
        act == actions[f]
        i == dp_netdev_action_get(act, "TUNNEL_POP")
    IN /\ wpc = "dispatch"
       /\ offload.op = "ADD"
       /\ ~dead[f]
       /\ netdev_ports_get(ports, in_port(f))
       /\ offload_check_action(ports, act)
       /\ i # 0
       /\ netdev_ports_get(ports, act[i].port)
       /\ mega_ufid(f) \notin DOMAIN ingress_flows

\* an ingress ADD whose put loop runs without the write lock
ingress_add_nolock(acc) ==
    /\ ReachesTnlPopLock
    /\ LET f == offload.flow
           inflow == ingress_flow_new(f, in_port(f))
           m1 == [Machine EXCEPT !.ref = dp_netdev_flow_ref(@, f)]
       IN SetMachine(tnl_pop_put_loop(ingress_flow_validate(m1, inflow, TRUE),
                                      inflow, acc))
    /\ offload' = [offload EXCEPT !.dp_act = actions[offload.flow]]
    /\ old_status' = flow_offload_status(status, offload.flow)
    /\ wpc' = "rollback"
    /\ UNCHANGED << qvars, wstatus, dead, actions, pvars, cvars, ports, ufids,
                    rwlock, gvars >>

\* dp_netdev_try_offload of an ingress ADD whose validation the driver
\* takes, up to the end of the put loop of try_offload_tnl_pop: the worker
\* holds the write lock
ingress_add_wrlock(acc) ==
    /\ ReachesTnlPopLock
    /\ LET f == offload.flow
           inflow == ingress_flow_new(f, in_port(f))
           m1 == [Machine EXCEPT !.ref = dp_netdev_flow_ref(@, f)]
       IN SetMachine(tnl_pop_put_loop(ingress_flow_validate(m1, inflow, TRUE),
                                      inflow, acc))
    /\ rwlock' = "wr"
    /\ offload' = [offload EXCEPT !.dp_act = actions[offload.flow]]
    /\ old_status' = flow_offload_status(status, offload.flow)
    /\ wpc' = "rollback"
    /\ UNCHANGED << qvars, wstatus, dead, actions, pvars, cvars, ports, ufids,
                    gvars >>

\* the rollback loop, ovs_rwlock_unlock, and dp_netdev_try_offload_ingress_add
\* after try_offload_tnl_pop returned: free the entry or insert it
ingress_add_unlock ==
    /\ wpc = "rollback"
    /\ LET f == offload.flow
           inflow == ingress_flow_new(f, in_port(f))
           r == tnl_pop_rollback_loop(Machine, inflow)
       IN IF r.hint # 0
          THEN /\ SetMachine([r.m EXCEPT !.ref = dp_netdev_flow_unref(@, f)])
               /\ wstatus' = "FAILED"
          ELSE /\ SetMachine([r.m EXCEPT
                                !.ing = hmap_insert(@, mega_ufid(f), inflow),
                                !.muts = @ \cup {AuxWrite("ingress_flows", "wr")}])
               /\ wstatus' = "FULL"
    /\ rwlock' = "free"
    /\ wpc' = "publish"
    /\ UNCHANGED << qvars, offload, old_status, dead, actions, pvars, cvars,
                    ports, ufids, gvars >>

\* dpif_netdev_offload_used of flow f up to the return of ingress_flow_find:
\* the lookup runs under the read lock, the entry is returned without it
try_ingress_stats_find(f) ==
    /\ reader.pc = "idle"
    /\ rwlock # "wr"
    /\ LET k == mega_ufid(f) IN
       reader' =
         IF ~netdev_ports_get(ports, in_port(f))
         THEN [NoReader EXCEPT !.ret = "-1"]
         ELSE IF try_ingress(ports, actions[f]) # "none"
                 /\ k \in DOMAIN ingress_flows
         THEN [pc |-> "inflow", flow |-> f, ufid |-> k, freed |-> FALSE,
               ret |-> "none"]
         ELSE [pc |-> "tnlflow_find", flow |-> f, ufid |-> -1,
               freed |-> FALSE, ret |-> "none"]
    /\ UNCHANGED << qvars, wvars, fvars, tvars, pvars, cvars, gvars, rwlock,
                    ports, ufids, drv, mut >>

\* try_ingress_stats with inflow in hand: the read lock, one
\* tnl_pop_flow_op_stat(inflow, tnlflow) per tnl-pop entry, unlock.  A freed
\* inflow is read when there is a tnl-pop entry: any outcome.
try_ingress_stats_locked ==
    /\ reader.pc = "inflow"
    /\ rwlock # "wr"
    /\ \E ret \in IF reader.freed /\ DOMAIN tnl_pop_flows # {}
                  THEN {"0", "-1", "fault"} ELSE {"0"} :
          reader' = [NoReader EXCEPT !.ret = ret]
    /\ UNCHANGED << qvars, wvars, fvars, tvars, pvars, cvars, gvars, rwlock,
                    ports, ufids, drv, mut >>

\* try_tnlflow_stats up to the return of tnlflow_find
try_tnlflow_stats_find ==
    /\ reader.pc = "tnlflow_find"
    /\ rwlock # "wr"
    /\ LET f == reader.flow
           k == mega_ufid(f)
       IN reader' =
            IF try_tnlflow(f, in_port(f)) /\ k \in DOMAIN tnl_pop_flows
            THEN [reader EXCEPT !.pc = "tnlflow", !.ufid = k]
            ELSE [reader EXCEPT !.pc = "flow_get"]
    /\ UNCHANGED << qvars, wvars, fvars, tvars, pvars, cvars, gvars, rwlock,
                    ports, ufids, drv, mut >>

\* try_tnlflow_stats with tnlflow in hand: the read lock, one
\* tnl_pop_flow_op_stat(inflow, tnlflow) per ingress entry, unlock
try_tnlflow_stats_locked ==
    /\ reader.pc = "tnlflow"
    /\ rwlock # "wr"
    /\ \E ret \in IF reader.freed /\ DOMAIN ingress_flows # {}
                  THEN {"0", "-1", "fault"} ELSE {"0"} :
          reader' = [NoReader EXCEPT !.ret = ret]
    /\ UNCHANGED << qvars, wvars, fvars, tvars, pvars, cvars, gvars, rwlock,
                    ports, ufids, drv, mut >>

\* dpif_netdev_offload_used: netdev_flow_get under the flow's own ufid
offload_used_flow_get ==
    /\ reader.pc = "flow_get"
    /\ reader' = [NoReader EXCEPT !.ret =
                    IF << in_port(reader.flow), mega_ufid(reader.flow) >> \in hw
                    THEN "0" ELSE "-1"]
    /\ UNCHANGED << qvars, wvars, fvars, tvars, pvars, cvars, gvars, rwlock,
                    ports, ufids, drv, mut >>

\* the thread in dpif_netdev_offload_used
dpif_netdev_offload_used ==
    \/ \E f \in AuxFlows : try_ingress_stats_find(f)
    \/ try_ingress_stats_locked
    \/ try_tnlflow_stats_find
    \/ try_tnlflow_stats_locked
    \/ offload_used_flow_get

\* the worker with the write-locked section of the ingress ADD in two steps
WorkerAux ==
    \/ worker_check
    \/ worker_del
    \/ \E acc \in SUBSET Partners : ingress_add_wrlock(acc)
    \/ ingress_add_unlock
    \/ \E own \in PutAnswers, acc \in SUBSET Partners,
          ord \in Orders(DOMAIN ingress_flows) :
          \/ ~ReachesTnlPopLock /\ dp_netdev_try_offload(own, acc, ord)
          \/ ReachesTnlPopLock /\ own = "fail"
               /\ dp_netdev_try_offload(own, acc, ord)
    \/ \E own \in PutAnswers, acc \in SUBSET Partners,
          ord \in Orders(DOMAIN ingress_flows) :
          try_offload_reeval(own, acc, ord)
    \/ try_offload_publish
    \/ try_offload_publish_failed
    \/ worker_free

\* One request at a time on the flows of AuxFlows, and a statistics reader
\* running beside the worker.
NextAux ==
    \/ Quiet /\ nreq < MaxAuxReq /\ \E f \in AuxFlows : Produce("pmd1", f)
    \/ queue_netdev_flow_put_locked("pmd1")
    \/ WorkerAux
    \/ dpif_netdev_offload_used

SpecAux == InitPorts /\ [][NextAux]_vars

\* ------------------------------------------------------------ the claims
\* the items of flow f the list holds
Queued(f) == {i \in DOMAIN list : list[i].flow = f}
\* the worker holds no item: it is between requests
Idle == offload.flow = "none"
\* the worker holds an item of flow f
Held(f) == offload.flow = f

\* C1: each flow has at most one offload item outstanding, in the list or
\* held by the worker.
C1_OneOutstanding ==
    \A f \in Flows :
        Cardinality(Queued(f)) + (IF Held(f) THEN 1 ELSE 0) <= 1

\* a producer call on flow f reaches the locked test of IN_PROGRESS
LockedCall(f) ==
    \/ \E p \in Producers :
          /\ ppc[p] = "lock"
          /\ parg[p].flow = f
          /\ queue_netdev_flow_put_locked(p)
    \/ queue_netdev_flow_del(f)

\* C2: queue_put (ADD or MOD) and queue_del on a flow whose status has
\* IN_PROGRESS set change neither the list, nor the flow's status word, nor
\* its reference count.
C2_CoalesceNoOp ==
    [][\A f \in Flows :
          (flow_offload_in_progress(status, f) /\ LockedCall(f))
              => /\ list' = list
                 /\ status' = status
                 /\ ref' = ref]_vars

\* Two producer calls were made on one live flow f, an ADD and a MOD that
\* replaced its actions; the worker has published nothing for f and the
\* list holds the ADD alone: the MOD met IN_PROGRESS and was coalesced.
C2_Witness ==
    \E f \in Flows :
        /\ nreq = 2
        /\ \A p \in Producers : ppc[p] = "idle"
        /\ Len(list) = 1
        /\ list[1].flow = f
        /\ list[1].op = "ADD"
        /\ actions[f] # InitAct(f)
        /\ ~dead[f]
        /\ status[f] = [base |-> "NONE", in_progress |-> TRUE]

\* C3: between requests, the ref of every tnl-pop entry is the number of
\* ingress entries whose composed entry with it is programmed.
C3_RefCountsProgrammed ==
    Idle =>
      \A t \in DOMAIN tnl_pop_flows :
        tnl_pop_flows[t].ref =
          Cardinality({i \in DOMAIN ingress_flows :
                         tnl_pop_flow_key(ingress_flows[i], tnl_pop_flows[t])
                             \in hw})

\* C4: between requests, every pair of an ingress entry and a tnl-pop entry
\* of the Aux has its composed entry programmed.
C4_PairsProgrammed ==
    Idle =>
      \A i \in DOMAIN ingress_flows, t \in DOMAIN tnl_pop_flows :
        tnl_pop_flow_key(ingress_flows[i], tnl_pop_flows[t]) \in hw

\* the entries of h under a composed ufid
ComposedEntries(h) ==
    {k \in h : \E a, b \in Flows :
                  a # b /\ k[2] = Xor(mega_ufid(a), mega_ufid(b))}

\* the request held by the worker takes the ingress ADD path as far as
\* try_offload_tnl_pop
ComposesIngress(own) ==
    /\ offload.op = "ADD"
    /\ ~dead[offload.flow]
    /\ netdev_ports_get(ports, in_port(offload.flow))
    /\ offload_check_action(ports, actions[offload.flow])
    /\ try_ingress(ports, actions[offload.flow]) # "none"
    /\ mega_ufid(offload.flow) \notin DOMAIN ingress_flows
    /\ own # "fail"

\* the request held by the worker, at position pc, takes the tnl-pop path as
\* far as the put loop
ComposesTnlPop(pc) ==
    LET f == offload.flow IN
    /\ wpc = pc
    /\ pc = "dispatch" =>
          /\ offload.op \in {"ADD", "MOD"}
          /\ ~dead[f]
          /\ netdev_ports_get(ports, in_port(f))
          /\ offload_check_action(ports, actions[f])
          /\ offload.op = "ADD" => try_ingress(ports, actions[f]) = "none"
          /\ offload.op = "MOD" => try_ingress(ports, offload.old_dp_act) = "none"
    /\ try_tnlflow(f, in_port(f))
    /\ mega_ufid(f) \in DOMAIN tnl_pop_flows
          => tnl_pop_flows[mega_ufid(f)].flow = f

\* a step of the worker that ran a cross-product and rolled it back
RollbackStep ==
    \E own \in PutAnswers, acc \in SUBSET Partners,
       ord \in Orders(DOMAIN ingress_flows) :
       \/ /\ wpc = "dispatch"
          /\ ComposesIngress(own)
          /\ \E t \in DOMAIN tnl_pop_flows : t \notin acc
          /\ dp_netdev_try_offload(own, acc, ord)
       \/ /\ ComposesTnlPop("dispatch")
          /\ \E i \in DOMAIN ingress_flows : i \notin acc
          /\ dp_netdev_try_offload(own, acc, ord)
       \/ /\ ComposesTnlPop("reeval")
          /\ \E i \in DOMAIN ingress_flows : i \notin acc
          /\ try_offload_reeval(own, acc, ord)

\* C5: a rollback leaves exactly the composed driver entries that were
\* programmed before the operation.
C5_RollbackRestores ==
    [][RollbackStep => ComposedEntries(hw') = ComposedEntries(hw)]_vars

\* C6: an ingress ADD whose cross-product met a refusal does not insert the
\* ingress flow and reports FAILED.
C6_IngressAddRollbackFails ==
    [][\A own \in PutAnswers, acc \in SUBSET Partners,
          ord \in Orders(DOMAIN ingress_flows) :
          ( /\ wpc = "dispatch"
            /\ ComposesIngress(own)
            /\ \E t \in DOMAIN tnl_pop_flows : t \notin acc
            /\ dp_netdev_try_offload(own, acc, ord) )
          => /\ mega_ufid(offload.flow) \notin DOMAIN ingress_flows'
             /\ wstatus' = "FAILED"]_vars

\* the references on flow f nobody but the worker's exit path accounts for:
\* the count less the classifier's, the items' and the Aux entries'
WorkerRefs(f) ==
    ref[f] - 1
      - Cardinality(Queued(f)) - (IF Held(f) THEN 1 ELSE 0)
      - Cardinality({i \in DOMAIN ingress_flows : ingress_flows[i].flow = f})
      - Cardinality({t \in DOMAIN tnl_pop_flows : tnl_pop_flows[t].flow = f})

\* C7: between requests, a flow whose status is FULL or MASK has exactly one
\* extra reference held by the worker.
C7_OneWorkerRef ==
    Idle =>
      \A f \in Flows :
        offload_status_offloaded(flow_offload_status(status, f))
            => WorkerRefs(f) = 1

\* C8: when the worker frees the item it processed, the flow's IN_PROGRESS
\* bit has been cleared (a bit set again since belongs to a newer item of
\* the flow in the list).
C8_InProgressCleared ==
    wpc = "free" =>
        \/ ~flow_offload_in_progress(status, offload.flow)
        \/ Queued(offload.flow) # {}

\* C9: once join has returned, the list holds no item that was queued
\* before join was called, and the flow of every such item the drain
\* dropped has status NONE and carries IN_PROGRESS only for an item a
\* producer has queued since; the drain hands nothing to the driver: it
\* empties the list, resets the status of every item's flow and leaves the
\* driver's entries and the Aux as they were.
C9_JoinDrains ==
    /\ [](~thread =>
            /\ prejoin = 0
            /\ \A f \in drained :
                  /\ flow_offload_status(status, f) = "NONE"
                  /\ flow_offload_in_progress(status, f) => Queued(f) # {})
    /\ [][wpc = "drain" /\ wpc' = "done"
            => /\ list' = << >>
               /\ \A i \in DOMAIN list :
                     status'[list[i].flow] = [base |-> "NONE", in_progress |-> FALSE]
               /\ UNCHANGED tvars]_vars

\* join has returned after a drain that dropped an item queued before join
\* was called
C9_Witness ==
    /\ ~thread
    /\ njoin = 1
    /\ drained # {}
    /\ prejoin = 0
    /\ \A f \in drained : status[f] = [base |-> "NONE", in_progress |-> FALSE]

\* C10: at the moment pause returns true the list is empty and the worker
\* holds no item.
C10_PauseQuiesces ==
    [][(\E c \in Callers : cpc[c] = "wait_lock" /\ cpc'[c] = "idle")
          => (list' = << >> /\ offload'.flow = "none")]_vars

\* C11: pause switches req from true to false atomically: of the control
\* threads that have called pause and not resumed yet, at most one was
\* returned true.
C11_OnePauseWins ==
    Cardinality({c \in Callers : pret[c] = "true"}) <= 1

\* the step in which control thread c returns from resume
ResumeStep(c) == pret[c] # "none" /\ pret'[c] = "none"

\* C12: when a pause call started with an empty list, an idle worker and no
\* producer inside a call, and no producer call and no join was made since,
\* the resume of what that pause returned leaves req, the list, both Aux
\* tables with their ref_counts, the driver's entries and every flow status
\* as they were when the pause call started.
C12_PauseResumeNoOp ==
    [][\A c \in Callers :
          (ResumeStep(c) /\ snap[c].quiet /\ snap[c].nreq = nreq
           /\ snap[c].njoin = njoin)
          => /\ req' = snap[c].req
             /\ list' = snap[c].list
             /\ ingress_flows' = snap[c].ing
             /\ tnl_pop_flows' = snap[c].tnl
             /\ hw' = snap[c].hw
             /\ status' = snap[c].status]_vars

\* a pause that started in a quiet state with offloaded flows has returned
\* true and has been resumed: req is set again
C12_Witness ==
    /\ snap["ctl1"].quiet
    /\ snap["ctl1"].nreq = nreq
    /\ snap["ctl1"].njoin = njoin
    /\ snap["ctl1"].req
    /\ snap["ctl1"].hw # {}
    /\ pret["ctl1"] = "none"
    /\ cpc["ctl1"] = "idle"
    /\ req

\* C13: queue_netdev_flow_del obeys the gate of queue_netdev_flow_put: a
\* call made while req is false appends no item, sets no IN_PROGRESS and
\* takes no reference.
C13_DelGated ==
    [][\A f \in Flows :
          (queue_netdev_flow_del(f) /\ ~req)
          => UNCHANGED << list, status, ref >>]_vars

\* the Aux as a set of ingress entries, a set of tnl-pop entries and the
\* ref_count of every tnl-pop entry
AuxState(m) ==
    [ing |-> DOMAIN m.ing, tnl |-> DOMAIN m.tnl,
     refs |-> [t \in DOMAIN m.tnl |-> m.tnl[t].ref]]

\* the Aux after the ADD of f with every driver call succeeding and the DEL
\* of f, both run by the worker on the state at hand
AddThenDel(f) ==
    LET it == [flow |-> f, op |-> "DEL", old_dp_act |-> << >>,
               dp_act |-> actions[f]]
        a == dp_netdev_try_offload_ingress_add(
                 Machine, ports, f, in_port(f), actions[f], TRUE,
                 DOMAIN tnl_pop_flows)
        ord == CHOOSE o \in Orders(DOMAIN ingress_flows) : TRUE
        am == IF a.status # "NONE" THEN a.m
              ELSE try_offload_tnl_or_normal(
                       Machine, f, flow_offload_status(status, f), ord,
                       DOMAIN ingress_flows, "full")
    IN AuxState(dp_netdev_flow_offload_del(am, ports, it).m)

\* C14: between requests, for every flow that is not in the Aux and whose
\* actions make it an ingress flow or a tnl-pop flow, an ADD with every
\* driver call succeeding followed by the DEL of the flow gives back the
\* ingress entries, the tnl-pop entries and every ref_count there were.
C14_AddDelRestoresAux ==
    Quiet =>
      \A f \in Flows :
        (/\ ~dead[f]
         /\ netdev_ports_get(ports, in_port(f))
         /\ offload_check_action(ports, actions[f])
         /\ mega_ufid(f) \notin DOMAIN ingress_flows \cup DOMAIN tnl_pop_flows
         /\ \/ try_ingress(ports, actions[f]) # "none"
            \/ try_tnlflow(f, in_port(f)))
        => AddThenDel(f) = AuxState(Machine)

\* flow f is programmed through the normal path: under its own ufid, and
\* it is in neither table of the Aux
NormalProgrammed(f) ==
    /\ offload_status_offloaded(flow_offload_status(status, f))
    /\ mega_ufid(f) \notin DOMAIN ingress_flows \cup DOMAIN tnl_pop_flows
    /\ << in_port(f), mega_ufid(f) >> \in hw

\* C15: between requests, two distinct (ingress, tnl-pop) pairs of the Aux
\* on the same netdev never have the same composed driver key, and no
\* composed key is the key of a flow programmed through the normal path.
C15_PairOwnsEntry ==
    Idle =>
      /\ \A i1 \in DOMAIN ingress_flows, i2 \in DOMAIN ingress_flows,
            t1 \in DOMAIN tnl_pop_flows, t2 \in DOMAIN tnl_pop_flows :
            << i1, t1 >> # << i2, t2 >>
            => tnl_pop_flow_key(ingress_flows[i1], tnl_pop_flows[t1])
                 # tnl_pop_flow_key(ingress_flows[i2], tnl_pop_flows[t2])
      /\ \A i \in DOMAIN ingress_flows, t \in DOMAIN tnl_pop_flows,
            f \in Flows :
            NormalProgrammed(f)
            => tnl_pop_flow_key(ingress_flows[i], tnl_pop_flows[t])
                 # << in_port(f), mega_ufid(f) >>

\* the worker's step that takes an ADD or MOD through the normal path: the
\* flow is alive, its netdev exists, its actions are offloadable and
\* neither the ingress nor the tnl-pop composition applies
NormalPathStep ==
    /\ offload.op \in {"ADD", "MOD"}
    /\ wpc' = "free"
    /\ ~try_tnlflow(offload.flow, in_port(offload.flow))
    /\ \/ wpc = "reeval"
       \/ /\ wpc = "dispatch"
          /\ ~dead[offload.flow]
          /\ netdev_ports_get(ports, in_port(offload.flow))
          /\ offload_check_action(ports, actions[offload.flow])
          /\ try_ingress(ports, IF offload.op = "ADD"
                                THEN actions[offload.flow]
                                ELSE offload.old_dp_act) = "none"

\* C16: an ADD or MOD on the normal path makes exactly one driver call, a
\* put under the flow's own ufid on its netdev, and leaves the flow with
\* status FULL when the driver reported the actions offloaded, MASK when it
\* accepted the match only, FAILED when it refused.
C16_NormalPathStatus ==
    [][NormalPathStep =>
         LET f == offload.flow
             key == << in_port(f), mega_ufid(f) >>
         IN \E ans \in PutAnswers :
               /\ drv' = {DrvPut(key, ans)}
               /\ hw' = IF ans = "fail" THEN hw ELSE hw \cup {key}
               /\ flow_offload_status(status', f) =
                     CASE ans = "full" -> "FULL"
                       [] ans = "mask" -> "MASK"
                       [] OTHER -> "FAILED"]_vars

\* the normal path has programmed N1 with the match only
C16_Witness ==
    /\ wpc = "free"
    /\ offload.flow = "N1"
    /\ offload.op = "ADD"
    /\ drv = {DrvPut(<< "p0", mega_ufid("N1") >>, "mask")}
    /\ << "p0", mega_ufid("N1") >> \in hw
    /\ flow_offload_status(status, "N1") = "MASK"

\* the worker's step that processes the DEL of a flow which is in the
\* ingress set of the Aux
IngressDelStep ==
    /\ wpc = "dispatch"
    /\ offload.op = "DEL"
    /\ wpc' = "free"
    /\ mega_ufid(offload.flow) \in DOMAIN ingress_flows
    /\ ingress_flows[mega_ufid(offload.flow)].flow = offload.flow

\* C17: the DEL of a flow of the ingress set, whatever its live actions
\* are, calls the driver's delete for its composed entry with every tnl-pop
\* entry, removes the flow from the ingress set and sets its status to
\* NONE; every tnl-pop entry stays, with its flow's status as it was.
C17_IngressDelCascade ==
    [][IngressDelStep =>
         LET f == offload.flow
             k == mega_ufid(f)
         IN /\ \A t \in DOMAIN tnl_pop_flows :
                 DrvDel(tnl_pop_flow_key(ingress_flows[k], tnl_pop_flows[t]))
                     \in drv'
            /\ k \notin DOMAIN ingress_flows'
            /\ flow_offload_status(status', f) = "NONE"
            /\ DOMAIN tnl_pop_flows' = DOMAIN tnl_pop_flows
            /\ \A t \in DOMAIN tnl_pop_flows :
                 status'[tnl_pop_flows[t].flow] = status[tnl_pop_flows[t].flow]
       ]_vars

\* the worker's step that takes an ADD or MOD of a tnl-pop flow through
\* dp_netdev_try_offload_tnl_pop
TnlPopStep ==
    /\ offload.op \in {"ADD", "MOD"}
    /\ wpc' = "free"
    /\ try_tnlflow(offload.flow, in_port(offload.flow))
    /\ \/ wpc = "reeval"
       \/ /\ wpc = "dispatch"
          /\ ~dead[offload.flow]
          /\ netdev_ports_get(ports, in_port(offload.flow))
          /\ offload_check_action(ports, actions[offload.flow])
          /\ try_ingress(ports, IF offload.op = "ADD"
                                THEN actions[offload.flow]
                                ELSE offload.old_dp_act) = "none"

\* the tnl-pop entry dp_netdev_try_offload_tnl_pop works on: the one found
\* in the Aux, or a new one
TnlEntry(f) ==
    IF mega_ufid(f) \in DOMAIN tnl_pop_flows
    THEN tnl_pop_flows[mega_ufid(f)]
    ELSE tnlflow_new(f)

\* the driver refused the composed put of the step with some ingress entry
TnlPopRefused ==
    \E i \in DOMAIN ingress_flows :
       DrvPut(tnl_pop_flow_key(ingress_flows[i], TnlEntry(offload.flow)),
              "fail") \in drv'

\* C18: when the driver refuses a composed put of a tnl-pop ADD or MOD,
\* every composed entry the operation had programmed is deleted again (one
\* delete per accepted put, so that the ref_count is what it was), the
\* tnl-pop flow is not in the Aux afterwards, whether it was new or there
\* before, the ingress set is unchanged and the flow's status is FAILED.
C18_TnlPopRollback ==
    [][(TnlPopStep /\ TnlPopRefused) =>
         LET f == offload.flow
         IN /\ \A c \in drv' :
                 (c.op = "put" /\ c.ans = "full")
                 => (DrvDel(c.key) \in drv' /\ c.key \notin hw')
            /\ mega_ufid(f) \notin DOMAIN tnl_pop_flows'
            /\ DOMAIN ingress_flows' = DOMAIN ingress_flows
            /\ \A i \in DOMAIN ingress_flows :
                 ingress_flows'[i].flow = ingress_flows[i].flow
            /\ flow_offload_status(status', f) = "FAILED"]_vars

\* the ADD of the new tnl-pop flow T1 was refused on its second ingress
\* entry: the entry programmed for the first one has been deleted again
C18_Witness ==
    /\ wpc = "free"
    /\ offload.flow = "T1"
    /\ offload.op = "ADD"
    /\ Cardinality(DOMAIN ingress_flows) = 2
    /\ \E c \in drv : c.op = "put" /\ c.ans = "full" /\ DrvDel(c.key) \in drv
    /\ \E c \in drv : c.op = "put" /\ c.ans = "fail"
    /\ mega_ufid("T1") \notin DOMAIN tnl_pop_flows
    /\ flow_offload_status(status, "T1") = "FAILED"

\* the steps that run under the queue mutex from lock to unlock
LockedSection ==
    \/ \E p \in Producers : queue_netdev_flow_put_locked(p)
    \/ \E f \in Flows : queue_netdev_flow_del(f)
    \/ worker_check
    \/ worker_drain
    \/ \E c \in Callers : wait_lock(c) \/ join_call(c)

\* the step calls the driver
DriverCalled == hw' # hw \/ (drv' # drv /\ drv' # {})

\* C19: no step that runs under the queue mutex calls the driver, the exit
\* drain included; the driver is called by the worker only, after it has
\* popped an item, set process and released the mutex.
C19_NoDriverCallLocked ==
    [][/\ LockedSection => ~DriverCalled
       /\ DriverCalled => (wpc \in {"dispatch", "reeval"} /\ process
                           /\ offload.flow # "none")]_vars

\* the exit drain has dropped queued items while entries are programmed
C19_Witness ==
    /\ wpc = "done"
    /\ drained # {}
    /\ hw # {}
    /\ list = << >>

\* the worker's step that takes the ADD of a flow through
\* dp_netdev_try_offload_ingress_add while its ufid is in the ingress set
DupIngressAddStep ==
    /\ wpc = "dispatch"
    /\ offload.op = "ADD"
    /\ ~dead[offload.flow]
    /\ netdev_ports_get(ports, in_port(offload.flow))
    /\ offload_check_action(ports, actions[offload.flow])
    /\ try_ingress(ports, actions[offload.flow]) # "none"
    /\ mega_ufid(offload.flow) \in DOMAIN ingress_flows

\* C20: the ADD of an ingress flow whose ufid is in the ingress set already
\* makes no driver call and changes neither table of the Aux, no ref_count
\* and no driver entry; the status it goes on to publish is FAILED, and the
\* publishing changes only the flow's status word.
C20_DupIngressAddRejected ==
    [][/\ DupIngressAddStep
          => /\ drv' = {}
             /\ UNCHANGED << ingress_flows, tnl_pop_flows, hw, ref >>
             /\ wpc' = "publish"
             /\ wstatus' = "FAILED"
       /\ (wpc = "publish" /\ wstatus = "FAILED" /\ wpc' = "free")
          => /\ drv' = {}
             /\ UNCHANGED << ingress_flows, tnl_pop_flows, hw, ref >>
             /\ flow_offload_status(status', offload.flow) = "FAILED"
             /\ \A f \in Flows \ {offload.flow} : status'[f] = status[f]]_vars

\* the second ADD of I1, already in the ingress set next to a programmed
\* tnl-pop entry, has been rejected
C20_Witness ==
    /\ wpc = "free"
    /\ offload.flow = "I1"
    /\ offload.op = "ADD"
    /\ mega_ufid("I1") \in DOMAIN ingress_flows
    /\ old_status = "FULL"
    /\ flow_offload_status(status, "I1") = "FAILED"
    /\ hw # {}
    /\ drv = {}

\* the put loop and the rollback loop, one after the other, are
\* try_offload_tnl_pop
SplitAgrees ==
    ReachesTnlPopLock
    => LET inflow == ingress_flow_new(offload.flow, in_port(offload.flow))
       IN \A acc \in SUBSET Partners :
             tnl_pop_rollback_loop(tnl_pop_put_loop(Machine, inflow, acc), inflow)
               = try_offload_tnl_pop(Machine, inflow, acc)

\* the tnl-pop entries whose composed put failed and that no composed entry
\* refers to
FailedOrphans ==
    {t \in DOMAIN tnl_pop_flows :
       tnl_pop_flows[t].status = "FAILED" /\ tnl_pop_flows[t].ref = 0}
\* the statistics reader takes the Aux lock and looks at the tables
ReaderStep == reader'.pc # reader.pc /\ reader.pc # "flow_get"

\* C21: in an ingress ADD, a tnl-pop entry whose composed put failed and
\* whose ref is 0 leaves the tnl-pop set, its flow marked FAILED, in the
\* write-locked section the put failed in: the step that ends the section
\* holds the write lock and removes every such entry, and no step of a
\* reader under the Aux lock sees one.
C21_FailedOrphanUnseen ==
    [][/\ ReaderStep => FailedOrphans = {}
       /\ (wpc = "rollback" /\ wpc' # "rollback")
          => /\ rwlock = "wr"
             /\ \A t \in FailedOrphans :
                   /\ t \notin DOMAIN tnl_pop_flows'
                   /\ flow_offload_status(status', tnl_pop_flows[t].flow)
                        = "FAILED"]_vars
\* the worker is between the put loop and the rollback loop with a failed
\* zero-ref entry in the table, a reader with that table's entry in hand
C21_Witness ==
    /\ wpc = "rollback"
    /\ rwlock = "wr"
    /\ FailedOrphans # {}
    /\ reader.pc = "tnlflow"

\* the worker's step that processes the DEL of a flow which is in the
\* tnl-pop set of the Aux
TnlDelStep ==
    /\ wpc = "dispatch"
    /\ offload.op = "DEL"
    /\ wpc' = "free"
    /\ mega_ufid(offload.flow) \in DOMAIN tnl_pop_flows
    /\ tnl_pop_flows[mega_ufid(offload.flow)].flow = offload.flow

\* C22: the DEL of a flow T of the tnl-pop set calls the driver's delete for
\* the composed entry of T with every ingress entry, sets T's status to
\* NONE, removes T from the tnl-pop set and drops the worker's extra
\* reference (with the entry's own); the ingress set and the status of
\* every ingress flow stay as they were.
C22_TnlDelCascade ==
    [][TnlDelStep =>
         LET f == offload.flow
             k == mega_ufid(f)
         IN /\ \A i \in DOMAIN ingress_flows :
                 DrvDel(tnl_pop_flow_key(ingress_flows[i], tnl_pop_flows[k]))
                     \in drv'
            /\ flow_offload_status(status', f) = "NONE"
            /\ ~flow_offload_in_progress(status', f)
            /\ k \notin DOMAIN tnl_pop_flows'
            /\ ref'[f] = ref[f] - 2
            /\ ingress_flows' = ingress_flows
            /\ \A i \in DOMAIN ingress_flows :
                 status'[ingress_flows[i].flow] = status[ingress_flows[i].flow]
       ]_vars

\* the worker's step on an ADD or MOD whose actions offload_check_action
\* rejects, of a live flow whose netdev exists
RejectedAtHand ==
    /\ wpc = "dispatch"
    /\ wpc' # wpc
    /\ offload.op \in {"ADD", "MOD"}
    /\ ~dead[offload.flow]
    /\ netdev_ports_get(ports, in_port(offload.flow))
    /\ ~offload_check_action(ports, actions[offload.flow])
\* the flow at hand is offloaded when the worker looks at it
OffloadedAtHand ==
    offload_status_offloaded(flow_offload_status(status, offload.flow))
\* the driver entries of flow f: the one under its own ufid and the composed
\* ones of its ingress entry and of its tnl-pop entry
HwOf(f) ==
    {<< in_port(f), mega_ufid(f) >>}
    \cup {tnl_pop_flow_key(ingress_flows[i], tnl_pop_flows[t]) :
            i \in {j \in DOMAIN ingress_flows : ingress_flows[j].flow = f},
            t \in DOMAIN tnl_pop_flows}
    \cup {tnl_pop_flow_key(ingress_flows[i], tnl_pop_flows[t]) :
            i \in DOMAIN ingress_flows,
            t \in {j \in DOMAIN tnl_pop_flows : tnl_pop_flows[j].flow = f}}

\* C23: when the classifier rejects the actions, an ADD, or a MOD of a flow
\* that is not offloaded, makes no driver call and leaves the flow FAILED;
\* a MOD of an offloaded flow deletes the flow's driver entries and leaves
\* the flow FAILED when dp_netdev_try_offload returns.
C23_RejectedActions ==
    [][/\ (RejectedAtHand /\ (offload.op = "ADD" \/ ~OffloadedAtHand))
          => /\ drv' = {}
             /\ hw' = hw
             /\ wpc' = "free"
             /\ status'[offload.flow] = [base |-> "FAILED", in_progress |-> FALSE]
       /\ (RejectedAtHand /\ offload.op = "MOD" /\ OffloadedAtHand)
          => /\ wpc' = "publish_failed"
             /\ hw' \cap HwOf(offload.flow) = {}
       /\ (wpc = "publish_failed" /\ wpc' # "publish_failed")
          => /\ wpc' = "free"
             /\ status'[offload.flow] = [base |-> "FAILED", in_progress |-> FALSE]
      ]_vars

\* the worker's step that processes the DEL of a flow whose input netdev
\* netdev_ports_get no longer resolves
DelNoNetdev ==
    /\ wpc = "dispatch"
    /\ wpc' = "free"
    /\ offload.op = "DEL"
    /\ ~netdev_ports_get(ports, in_port(offload.flow))

\* C24: a DEL of a flow whose input netdev cannot be resolved makes no
\* driver call, stores NONE in the flow's status word, which clears
\* IN_PROGRESS, and leaves every table of the Aux and the driver as they
\* were.
C24_DelNoNetdev ==
    [][DelNoNetdev =>
         /\ drv' = {}
         /\ status'[offload.flow] = [base |-> "NONE", in_progress |-> FALSE]
         /\ UNCHANGED << ingress_flows, tnl_pop_flows, hw >>]_vars
\* such a DEL was processed: the flow's status word had IN_PROGRESS set by
\* queue_netdev_flow_del and is NONE now
C24_Witness ==
    /\ wpc = "free"
    /\ offload.op = "DEL"
    /\ ~netdev_ports_get(ports, in_port(offload.flow))
    /\ status[offload.flow] = [base |-> "NONE", in_progress |-> FALSE]
    /\ list = << >>

\* C25: every write to Aux state the worker makes (an entry inserted or
\* removed, a ref count or an entry's status changed while pairs are
\* programmed and rolled back) is made with aux->rwlock held for writing.
C25_WritesUnderWriteLock == \A w \in mut : w.lock = "wr"

\* the worker's first step on a MOD of a flow of the ingress set whose prior
\* actions hold a TUNNEL_POP: dp_netdev_try_offload_ingress
IngressModStep ==
    /\ wpc = "dispatch"
    /\ wpc' = "reeval"
    /\ offload.op = "MOD"
    /\ mega_ufid(offload.flow) \in DOMAIN ingress_flows
    /\ ingress_flows[mega_ufid(offload.flow)].flow = offload.flow
\* the step after it, of a flow that was offloaded: the flow is evaluated
\* again with its new actions
IngressModReeval ==
    /\ wpc = "reeval"
    /\ wpc' = "free"
    /\ offload_status_offloaded(old_status)

\* C26: a MOD of a flow of the ingress set whose prior actions held a
\* TUNNEL_POP takes the flow out of the ingress set and leaves none of its
\* composed entries in the driver; the flow is then evaluated again: with
\* new actions that still hold a TUNNEL_POP it is composed as a fresh
\* ingress ADD is, otherwise it goes down the tnl-pop or the normal path.
C26_IngressModRecomposed ==
    [][/\ IngressModStep
          => /\ mega_ufid(offload.flow) \notin DOMAIN ingress_flows'
             /\ hw' \cap HwOf(offload.flow) = {}
       /\ IngressModReeval
          => LET f == offload.flow
                 m == Machine
             IN \E own \in PutAnswers, acc \in SUBSET Partners,
                   ord \in Orders(DOMAIN ingress_flows) :
                   LET add == dp_netdev_try_offload_ingress_add(
                                  m, ports, f, in_port(f), offload.dp_act,
                                  own # "fail", acc)
                       r == IF add.status # "NONE" THEN add.m
                            ELSE try_offload_tnl_or_normal(
                                     m, f, old_status, ord, acc, own)
                   IN /\ ingress_flows' = r.ing
                      /\ tnl_pop_flows' = r.tnl
                      /\ hw' = r.hw
      ]_vars

\* the reader's step that passes the entry it looked up to
\* tnl_pop_flow_op_stat: once per entry of the other table
ReaderUse ==
    \/ /\ reader.pc = "inflow"
       /\ reader'.pc = "idle"
       /\ DOMAIN tnl_pop_flows # {}
    \/ /\ reader.pc = "tnlflow"
       /\ reader'.pc = "idle"
       /\ DOMAIN ingress_flows # {}

\* C27: a statistics reader running beside the worker never uses an ingress
\* or tnl-pop entry the worker has removed and freed since the reader
\* looked it up.
C27_NoUseAfterFree == [][ReaderUse => ~reader.freed]_vars

\* flow f has an entry in a table of the Aux
InAux(f) ==
    \/ \E i \in DOMAIN ingress_flows : ingress_flows[i].flow = f
    \/ \E t \in DOMAIN tnl_pop_flows : tnl_pop_flows[t].flow = f

\* C28: a flow whose status is NONE with IN_PROGRESS clear has no driver
\* entry under its ufid and is in no table of the Aux.
C28_NoneMeansGone ==
    \A f \in Flows :
       status[f] = [base |-> "NONE", in_progress |-> FALSE]
       => /\ << in_port(f), mega_ufid(f) >> \notin hw
          /\ ~InAux(f)

\* C29: under fair scheduling every item that is on the list while the
\* worker thread runs is in the end off the list and freed, by the worker's
\* loop or by the drain at its exit: no wakeup is lost although a producer
\* signals the condvar only when process is false.
C29_ItemsLeaveQueue ==
    \A f \in LifeFlows :
       (Queued(f) # {} /\ wpc # "done") ~> (Queued(f) = {} /\ ~Held(f))
\* the worker was woken from cond_wait by a producer that found process
\* false, popped the item, and a second item was appended without a signal
C29_Witness ==
    /\ wpc = "dispatch"
    /\ process
    /\ list # << >>
    /\ ~exit

\* control thread ctl1 is inside dp_netdev_offload_pause, past the test of
\* req
InPause == cpc["ctl1"] \in {"pause_store", "wait_read", "wait_lock"}

\* C30: under fair scheduling, producers making finitely many calls, every
\* call of pause that got past the test of req returns, whatever state it was
\* made in, the state between join and restart included.
C30_PauseReturns == InPause ~> (cpc["ctl1"] = "idle")

\* C31: under fair scheduling a call of join returns, with the worker's
\* thread function returned and the thread handle cleared, wherever the
\* worker was when exit was set: blocked in cond_wait, processing an item,
\* or about to test the list.
C31_JoinReturns ==
    (cpc["ctl1"] = "join")
       ~> (cpc["ctl1"] = "idle" /\ wpc = "done" /\ ~thread)
\* join was called while the worker was processing an item, with another
\* item on the list
C31_Witness ==
    /\ cpc["ctl1"] = "join"
    /\ exit
    /\ wpc = "free"
    /\ process
    /\ list # << >>
====
